---- MODULE Spec2Model ----
\* Verification model of hilbertplot-core: the QuasiSquare / HilbertCurve curve
\* engine (src/src/hilbertcurve.cpp), the thread pool it builds on
\* (threads_utility.h, src/unnamed/part_003) and the HilbertPlot layer
\* (hilbertplot.cpp, src/unnamed/part_002).
\*
\* Conventions
\*  - std::vector<HPoint> is a TLA+ sequence; the C++ element v[i] (0-based) is
\*    the sequence element v[i+1].
\*  - hsize/hint are unsigned 32-bit; every quantity of the model stays far below
\*    2^31, so no operation of the modelled code wraps and plain integers are used.
\*  - Orientation is the string "A", "B", "C" or "D"; CurveType Hk is the number k.
EXTENDS Integers, Sequences, FiniteSets, TLC

VARIABLES
    pc,          \* position of the client (top-level caller) in its call
    m_type,      \* HilbertCurve::m_type
    n,           \* QuasiSquare::n  (height)
    m,           \* QuasiSquare::m  (width)
    oABCD,       \* QuasiSquare::oABCD
    m_curve,     \* HilbertCurve::m_curve
    work_queue,      \* thread_pool::work_queue
    unfinish_tasks,  \* thread_pool::unfinish_tasks
    wpc,             \* position of each pool worker thread in worker_thread()
    stack,           \* per thread: the active QuasiSquare::BuildCurve invocations
    writes,          \* history: how often each index of coordinates_list was assigned
    lenght,          \* argument of HilbertPlot::bestDimensions
    dim,             \* pair returned by HilbertPlot::bestDimensions
    m_data,          \* HilbertPlot::m_data
    m_min,           \* HilbertPlot::m_min
    m_max,           \* HilbertPlot::m_max
    m_plotToCurve,   \* HilbertPlot::m_plotToCurve, m_plotToCurve[x][y] at [x + 1][y + 1]
    ret,             \* the exception the last HilbertPlot call raised, or "none"
    coord,           \* QuasiSquare::coord
    difference,      \* HPoint::difference of m_curve[i], at [i]
    m_mean_difference,   \* HilbertCurve::m_mean_difference
    partition_vec,   \* the vector QuasiSquare::Partition returns
    dataoutput,      \* hpFourierTransform: the bins fftw_execute left in dataoutput
    spectrum,        \* hpFourierTransform: its locals max, min, max2 and the clamped powers
    operands,        \* the two HPoints a client compares
    cmp,             \* what operator<, >, <= and >= returned for them
    builds           \* two H0 builds on the one pool: position of each caller, its curve

\* ------------------------------------------------------------------ bounds
\* largest width / height of a curve built through the constructor
MaxDim == 4
\* largest height and width of an H0 build followed thread by thread
MaxPoolN == 5
MaxPoolM == 2
\* thread_count of the pool instance (threads_utility.h: hardware_concurrency - 1, at least 1)
NumWorkers == 1

\* largest argument of bestDimensions
MaxLenght == 120
\* longest data sequence handed to the HilbertPlot constructor
MaxDataLen == 5
\* longest data sequence handed to replaceData
MaxReplaceLen == 4
\* largest explicit width / height handed to the HilbertPlot constructor
MaxPlotDim == 2

\* largest height and width of the builds whose termination is followed
MaxFairN == 4
MaxFairM == 2

\* largest n and m of the regions Partition is called on
MaxPartitionDim == 6

\* largest width and height of the curves that are reversed and reflected
MaxTransformDim == 3
\* families the plots are built with: the primitive family, a family whose
\* quadrants are all H5, and a family mixing H1, H3 and H5
PlotFamilies == {0, 6, 39}

Orientation == {"A", "B", "C", "D"}
CurveType == 0..39

\* ------------------------------------------------------------------ HPoint
\* hpoint.cpp:304  HPoint(xx, yy); difference and index start at 0
HPoint(xx, yy) == [x |-> xx, y |-> yy, index |-> 0]

\* ------------------------------------------------------------- QuasiSquare
\* hilbertcurve.cpp:39-45
QuasiSquare(nn, mm, point, o) == [n |-> nn, m |-> mm, coord |-> point, oABCD |-> o]

\* Partition with n2 = n/2 instead of n - n1: the odd row is lost
Partition_half(qs) ==
    LET n1e == qs.n \div 2
        n2e == qs.n \div 2
        m1e == qs.m \div 2
        m2e == qs.m - m1e
        AB  == qs.oABCD \in {"A", "B"}
        swapN == IF AB THEN n1e % 2 = 1 ELSE n2e % 2 = 1
        swapM == IF AB THEN m1e % 2 = 1 ELSE m2e % 2 = 1
        n1 == IF swapN THEN n2e ELSE n1e
        n2 == IF swapN THEN n1e ELSE n2e
        m1 == IF swapM THEN m2e ELSE m1e
        m2 == IF swapM THEN m1e ELSE m2e
        cx == qs.coord.x
        cy == qs.coord.y
        LR(o) == QuasiSquare(n1, m2, HPoint(cx + m1, cy), o)
        UR(o) == QuasiSquare(n2, m2, HPoint(cx + m1, cy + n1), o)
        UL(o) == QuasiSquare(n2, m1, HPoint(cx, cy + n1), o)
        LL(o) == QuasiSquare(n1, m1, HPoint(cx, cy), o)
    IN  CASE qs.oABCD = "A" -> <<LR("D"), UR("A"), UL("A"), LL("B")>>
          [] qs.oABCD = "B" -> <<UL("C"), UR("B"), LR("B"), LL("A")>>
          [] qs.oABCD = "C" -> <<UL("B"), LL("C"), LR("C"), UR("D")>>
          [] qs.oABCD = "D" -> <<LR("A"), LL("D"), UL("D"), UR("C")>>

\* Partition with the upper right child placed at the offsets (m2, n2) instead
\* of (m1, n1)
Partition_offset(qs) ==
    LET n1e == qs.n \div 2
        n2e == qs.n - n1e
        m1e == qs.m \div 2
        m2e == qs.m - m1e
        AB  == qs.oABCD \in {"A", "B"}
        swapN == IF AB THEN n1e % 2 = 1 ELSE n2e % 2 = 1
        swapM == IF AB THEN m1e % 2 = 1 ELSE m2e % 2 = 1
        n1 == IF swapN THEN n2e ELSE n1e
        n2 == IF swapN THEN n1e ELSE n2e
        m1 == IF swapM THEN m2e ELSE m1e
        m2 == IF swapM THEN m1e ELSE m2e
        cx == qs.coord.x
        cy == qs.coord.y
        LR(o) == QuasiSquare(n1, m2, HPoint(cx + m1, cy), o)
        UR(o) == QuasiSquare(n2, m2, HPoint(cx + m2, cy + n2), o)
        UL(o) == QuasiSquare(n2, m1, HPoint(cx, cy + n1), o)
        LL(o) == QuasiSquare(n1, m1, HPoint(cx, cy), o)
    IN  CASE qs.oABCD = "A" -> <<LR("D"), UR("A"), UL("A"), LL("B")>>
          [] qs.oABCD = "B" -> <<UL("C"), UR("B"), LR("B"), LL("A")>>
          [] qs.oABCD = "C" -> <<UL("B"), LL("C"), LR("C"), UR("D")>>
          [] qs.oABCD = "D" -> <<LR("A"), LL("D"), UL("D"), UR("C")>>

\* Partition with the parity test of orientations A and B applied to every
\* orientation
Partition_parity(qs) ==
    LET n1e == qs.n \div 2
        n2e == qs.n - n1e
        m1e == qs.m \div 2
        m2e == qs.m - m1e
        AB  == qs.oABCD \in {"A", "B"}
        swapN == n1e % 2 = 1
        swapM == m1e % 2 = 1
        n1 == IF swapN THEN n2e ELSE n1e
        n2 == IF swapN THEN n1e ELSE n2e
        m1 == IF swapM THEN m2e ELSE m1e
        m2 == IF swapM THEN m1e ELSE m2e
        cx == qs.coord.x
        cy == qs.coord.y
        LR(o) == QuasiSquare(n1, m2, HPoint(cx + m1, cy), o)
        UR(o) == QuasiSquare(n2, m2, HPoint(cx + m1, cy + n1), o)
        UL(o) == QuasiSquare(n2, m1, HPoint(cx, cy + n1), o)
        LL(o) == QuasiSquare(n1, m1, HPoint(cx, cy), o)
    IN  CASE qs.oABCD = "A" -> <<LR("D"), UR("A"), UL("A"), LL("B")>>
          [] qs.oABCD = "B" -> <<UL("C"), UR("B"), LR("B"), LL("A")>>
          [] qs.oABCD = "C" -> <<UL("B"), LL("C"), LR("C"), UR("D")>>
          [] qs.oABCD = "D" -> <<LR("A"), LL("D"), UL("D"), UR("C")>>

\* Partition with a parity correction that moves one row or column to the
\* first half instead of exchanging the halves
Partition_even(qs) ==
    LET n1e == qs.n \div 2
        n2e == qs.n - n1e
        m1e == qs.m \div 2
        m2e == qs.m - m1e
        AB  == qs.oABCD \in {"A", "B"}
        swapN == IF AB THEN n1e % 2 = 1 ELSE n2e % 2 = 1
        swapM == IF AB THEN m1e % 2 = 1 ELSE m2e % 2 = 1
        n1 == IF swapN THEN n1e + 1 ELSE n1e
        n2 == IF swapN THEN n2e - 1 ELSE n2e
        m1 == IF swapM THEN m1e + 1 ELSE m1e
        m2 == IF swapM THEN m2e - 1 ELSE m2e
        cx == qs.coord.x
        cy == qs.coord.y
        LR(o) == QuasiSquare(n1, m2, HPoint(cx + m1, cy), o)
        UR(o) == QuasiSquare(n2, m2, HPoint(cx + m1, cy + n1), o)
        UL(o) == QuasiSquare(n2, m1, HPoint(cx, cy + n1), o)
        LL(o) == QuasiSquare(n1, m1, HPoint(cx, cy), o)
    IN  CASE qs.oABCD = "A" -> <<LR("D"), UR("A"), UL("A"), LL("B")>>
          [] qs.oABCD = "B" -> <<UL("C"), UR("B"), LR("B"), LL("A")>>
          [] qs.oABCD = "C" -> <<UL("B"), LL("C"), LR("C"), UR("D")>>
          [] qs.oABCD = "D" -> <<LR("A"), LL("D"), UL("D"), UR("C")>>

\* hilbertcurve.cpp:81-225.  The result is partition_vec in push_back order.
Partition(qs) ==
    LET n1e == qs.n \div 2
        n2e == qs.n - n1e
        m1e == qs.m \div 2
        m2e == qs.m - m1e
        AB  == qs.oABCD \in {"A", "B"}
        swapN == IF AB THEN n1e % 2 = 1 ELSE n2e % 2 = 1
        swapM == IF AB THEN m1e % 2 = 1 ELSE m2e % 2 = 1
        n1 == IF swapN THEN n2e ELSE n1e
        n2 == IF swapN THEN n1e ELSE n2e
        m1 == IF swapM THEN m2e ELSE m1e
        m2 == IF swapM THEN m1e ELSE m2e
        cx == qs.coord.x
        cy == qs.coord.y
        LR(o) == QuasiSquare(n1, m2, HPoint(cx + m1, cy), o)
        UR(o) == QuasiSquare(n2, m2, HPoint(cx + m1, cy + n1), o)
        UL(o) == QuasiSquare(n2, m1, HPoint(cx, cy + n1), o)
        LL(o) == QuasiSquare(n1, m1, HPoint(cx, cy), o)
    IN  CASE qs.oABCD = "A" -> <<LR("D"), UR("A"), UL("A"), LL("B")>>
          [] qs.oABCD = "B" -> <<UL("C"), UR("B"), LR("B"), LL("A")>>
          [] qs.oABCD = "C" -> <<UL("B"), LL("C"), LR("C"), UR("D")>>
          [] qs.oABCD = "D" -> <<LR("A"), LL("D"), UL("D"), UR("C")>>

\* coordinates_list[index] = p   (0-based index; a write past the end is left
\* out of the sequence, the pool model records it separately)
Store(coordinates_list, index, p) ==
    IF index + 1 \in DOMAIN coordinates_list
    THEN [coordinates_list EXCEPT ![index + 1] = p]
    ELSE coordinates_list

\* hilbertcurve.cpp:288-403  the points a primitive region writes, in the
\* order of the indices index, index+1, ...
PrimitivePoints(qs) ==
    LET c == qs.coord
        o == qs.oABCD
        P(dx, dy) == HPoint(c.x + dx, c.y + dy)
    IN  IF qs.n = 1 /\ qs.m = 1 THEN <<P(0, 0)>>
        ELSE IF qs.n = 1 /\ qs.m = 2
             THEN IF o \in {"A", "B"} THEN <<P(0, 0), P(1, 0)>> ELSE <<P(1, 0), P(0, 0)>>
        ELSE IF qs.n = 2 /\ qs.m = 1
             THEN IF o \in {"A", "B"} THEN <<P(0, 0), P(0, 1)>> ELSE <<P(0, 1), P(0, 0)>>
        ELSE IF qs.n = 2 /\ qs.m = 2
             THEN CASE o = "A" -> <<P(0, 0), P(0, 1), P(1, 1), P(1, 0)>>
                    [] o = "B" -> <<P(0, 0), P(1, 0), P(1, 1), P(0, 1)>>
                    [] o = "C" -> <<P(1, 1), P(1, 0), P(0, 0), P(0, 1)>>
                    [] o = "D" -> <<P(1, 1), P(0, 1), P(0, 0), P(1, 0)>>
        ELSE << >>

RECURSIVE StoreAll(_, _, _)
StoreAll(coordinates_list, index, ps) ==
    IF ps = << >> THEN coordinates_list
    ELSE StoreAll(Store(coordinates_list, index, Head(ps)), index + 1, Tail(ps))

\* hilbertcurve.cpp:288-403  the base-case tail of QuasiSquare::BuildCurve
WritePrimitive(coordinates_list, qs, index) ==
    StoreAll(coordinates_list, index, PrimitivePoints(qs))

\* ChildIndex with "index += qs.n * qs.m" moved into the else branch of the
\* loop body: the children pushed to the pool (iterations 0 and 1) do not
\* advance the index
ChildIndex_stale(qsv, index, i) ==
    LET Area(k) == qsv[5 - k].n * qsv[5 - k].m
    IN  index + (IF i > 2 THEN Area(3) ELSE 0)

\* hilbertcurve.cpp:258  index += qs.n * qs.m : the start index of the child
\* taken at loop iteration i (0..3), children being popped from the back
ChildIndex(qsv, index, i) ==
    LET Area(k) == qsv[5 - k].n * qsv[5 - k].m
    IN  index + (IF i > 0 THEN Area(1) ELSE 0) + (IF i > 1 THEN Area(2) ELSE 0)
              + (IF i > 2 THEN Area(3) ELSE 0)

\* hilbertcurve.cpp:230-417  QuasiSquare::BuildCurve when one thread executes
\* every sub-build (each pushed task run by the same thread)
RECURSIVE BuildCurve(_, _, _)
BuildCurve(coordinates_list, qs, index) ==
    IF qs.n > 2 \/ qs.m > 2
    THEN LET qsv == Partition(qs)
             l1 == BuildCurve(coordinates_list, qsv[4], ChildIndex(qsv, index, 0))
             l2 == BuildCurve(l1, qsv[3], ChildIndex(qsv, index, 1))
             l3 == BuildCurve(l2, qsv[2], ChildIndex(qsv, index, 2))
             l4 == BuildCurve(l3, qsv[1], ChildIndex(qsv, index, 3))
         IN  l4
    ELSE WritePrimitive(coordinates_list, qs, index)

\* hilbertcurve.cpp:802-817  m_curve.assign(n*m, 0); BuildCurve(m_curve, 0);
\* the drain loop returns once every sub-build has run
BuildCurveH0(c) ==
    BuildCurve([i \in 1..(c.n * c.m) |-> HPoint(0, 0)],
               QuasiSquare(c.n, c.m, c.coord, c.oABCD), 0)

\* ------------------------------------------------- the 39 composed families
\* hilbertcurve.cpp:818-862  child orientations o1..o4, child families t1..t4 and the
\* transform applied to each quadrant, per parent orientation.
BuildCurve1H(o) ==
    CASE o = "A" -> [o |-> <<"D", "D", "B", "B">>, t |-> <<0, 0, 0, 0>>, f |-> <<"reverse", "reverse", "reverse", "reverse">>]
      [] o = "B" -> [o |-> <<"C", "A", "A", "C">>, t |-> <<0, 0, 0, 0>>, f |-> <<"reverse", "reverse", "reverse", "reverse">>]
      [] o = "C" -> [o |-> <<"D", "D", "B", "B">>, t |-> <<0, 0, 0, 0>>, f |-> <<"reverse", "reverse", "reverse", "reverse">>]
      [] o = "D" -> [o |-> <<"C", "A", "A", "C">>, t |-> <<0, 0, 0, 0>>, f |-> <<"reverse", "reverse", "reverse", "reverse">>]

\* hilbertcurve.cpp:863-899  child orientations o1..o4, child families t1..t4 and the
\* transform applied to each quadrant, per parent orientation.
BuildCurve2H(o) ==
    CASE o = "A" -> [o |-> <<"C", "A", "A", "C">>, t |-> <<0, 0, 0, 0>>, f |-> <<"none", "none", "none", "none">>]
      [] o = "B" -> [o |-> <<"D", "D", "B", "B">>, t |-> <<0, 0, 0, 0>>, f |-> <<"none", "none", "none", "none">>]
      [] o = "C" -> [o |-> <<"C", "A", "A", "C">>, t |-> <<0, 0, 0, 0>>, f |-> <<"none", "none", "none", "none">>]
      [] o = "D" -> [o |-> <<"D", "D", "B", "B">>, t |-> <<0, 0, 0, 0>>, f |-> <<"none", "none", "none", "none">>]

\* hilbertcurve.cpp:900-952  child orientations o1..o4, child families t1..t4 and the
\* transform applied to each quadrant, per parent orientation.
BuildCurve3H(o) ==
    CASE o = "A" -> [o |-> <<"C", "D", "B", "C">>, t |-> <<0, 0, 0, 0>>, f |-> <<"reverse", "reverse", "reverse", "reverse">>]
      [] o = "B" -> [o |-> <<"D", "D", "A", "C">>, t |-> <<0, 0, 0, 0>>, f |-> <<"reverse", "reverse", "reverse", "reverse">>]
      [] o = "C" -> [o |-> <<"D", "A", "A", "B">>, t |-> <<0, 0, 0, 0>>, f |-> <<"reverse", "reverse", "reverse", "reverse">>]
      [] o = "D" -> [o |-> <<"C", "A", "B", "B">>, t |-> <<0, 0, 0, 0>>, f |-> <<"reverse", "reverse", "reverse", "reverse">>]

\* hilbertcurve.cpp:953-999  child orientations o1..o4, child families t1..t4 and the
\* transform applied to each quadrant, per parent orientation.
BuildCurve4H(o) ==
    CASE o = "A" -> [o |-> <<"B", "A", "A", "C">>, t |-> <<0, 0, 0, 0>>, f |-> <<"none", "none", "none", "none">>]
      [] o = "B" -> [o |-> <<"A", "D", "B", "B">>, t |-> <<0, 0, 0, 0>>, f |-> <<"none", "none", "none", "none">>]
      [] o = "C" -> [o |-> <<"C", "A", "D", "C">>, t |-> <<0, 0, 0, 0>>, f |-> <<"none", "none", "none", "none">>]
      [] o = "D" -> [o |-> <<"D", "D", "C", "B">>, t |-> <<0, 0, 0, 0>>, f |-> <<"none", "none", "none", "none">>]

\* hilbertcurve.cpp:1000-1052  child orientations o1..o4, child families t1..t4 and the
\* transform applied to each quadrant, per parent orientation.
BuildCurve5H(o) ==
    CASE o = "A" -> [o |-> <<"C", "D", "B", "B">>, t |-> <<0, 0, 0, 0>>, f |-> <<"reverse", "reverse", "reverse", "reverse">>]
      [] o = "B" -> [o |-> <<"D", "A", "A", "C">>, t |-> <<0, 0, 0, 0>>, f |-> <<"reverse", "reverse", "reverse", "reverse">>]
      [] o = "C" -> [o |-> <<"D", "D", "A", "B">>, t |-> <<0, 0, 0, 0>>, f |-> <<"reverse", "reverse", "reverse", "reverse">>]
      [] o = "D" -> [o |-> <<"C", "A", "B", "C">>, t |-> <<0, 0, 0, 0>>, f |-> <<"reverse", "reverse", "reverse", "reverse">>]

\* hilbertcurve.cpp:1053-1092  child orientations o1..o4, child families t1..t4 and the
\* transform applied to each quadrant, per parent orientation.
BuildCurve6H(o) ==
    CASE o = "A" -> [o |-> <<"C", "A", "A", "C">>, t |-> <<5, 5, 5, 5>>, f |-> <<"none", "reflectAndReverse", "none", "reflectAndReverse">>]
      [] o = "B" -> [o |-> <<"D", "D", "B", "B">>, t |-> <<5, 5, 5, 5>>, f |-> <<"none", "reflectAndReverse", "none", "reflectAndReverse">>]
      [] o = "C" -> [o |-> <<"C", "A", "A", "C">>, t |-> <<5, 5, 5, 5>>, f |-> <<"none", "reflectAndReverse", "none", "reflectAndReverse">>]
      [] o = "D" -> [o |-> <<"D", "D", "B", "B">>, t |-> <<5, 5, 5, 5>>, f |-> <<"none", "reflectAndReverse", "none", "reflectAndReverse">>]

\* hilbertcurve.cpp:1093-1162  child orientations o1..o4, child families t1..t4 and the
\* transform applied to each quadrant, per parent orientation.
BuildCurve7H(o) ==
    CASE o = "A" -> [o |-> <<"C", "A", "A", "D">>, t |-> <<5, 5, 5, 5>>, f |-> <<"none", "reflectAndReverse", "none", "none">>]
      [] o = "B" -> [o |-> <<"A", "D", "B", "B">>, t |-> <<5, 5, 5, 5>>, f |-> <<"reflectAndReverse", "reflectAndReverse", "none", "reflectAndReverse">>]
      [] o = "C" -> [o |-> <<"C", "B", "A", "C">>, t |-> <<5, 5, 5, 5>>, f |-> <<"none", "none", "none", "reflectAndReverse">>]
      [] o = "D" -> [o |-> <<"D", "D", "C", "B">>, t |-> <<5, 5, 5, 5>>, f |-> <<"none", "reflectAndReverse", "reflectAndReverse", "reflectAndReverse">>]

\* hilbertcurve.cpp:1163-1232  child orientations o1..o4, child families t1..t4 and the
\* transform applied to each quadrant, per parent orientation.
BuildCurve8H(o) ==
    CASE o = "A" -> [o |-> <<"B", "A", "A", "D">>, t |-> <<5, 5, 5, 5>>, f |-> <<"reflectAndReverse", "reflectAndReverse", "none", "none">>]
      [] o = "B" -> [o |-> <<"A", "C", "B", "B">>, t |-> <<5, 5, 5, 5>>, f |-> <<"reflectAndReverse", "none", "none", "reflectAndReverse">>]
      [] o = "C" -> [o |-> <<"C", "B", "D", "C">>, t |-> <<5, 5, 5, 5>>, f |-> <<"none", "none", "reflectAndReverse", "reflectAndReverse">>]
      [] o = "D" -> [o |-> <<"D", "D", "C", "A">>, t |-> <<5, 5, 5, 5>>, f |-> <<"none", "reflectAndReverse", "reflectAndReverse", "none">>]

\* hilbertcurve.cpp:1233-1275  child orientations o1..o4, child families t1..t4 and the
\* transform applied to each quadrant, per parent orientation.
BuildCurve9H(o) ==
    CASE o = "A" -> [o |-> <<"D", "D", "B", "B">>, t |-> <<5, 5, 5, 5>>, f |-> <<"reverse", "reflect", "reverse", "reflect">>]
      [] o = "B" -> [o |-> <<"C", "A", "A", "C">>, t |-> <<5, 5, 5, 5>>, f |-> <<"reverse", "reflect", "reverse", "reflect">>]
      [] o = "C" -> [o |-> <<"D", "D", "B", "B">>, t |-> <<5, 5, 5, 5>>, f |-> <<"reverse", "reflect", "reverse", "reflect">>]
      [] o = "D" -> [o |-> <<"C", "A", "A", "C">>, t |-> <<5, 5, 5, 5>>, f |-> <<"reverse", "reflect", "reverse", "reflect">>]

\* hilbertcurve.cpp:1276-1353  child orientations o1..o4, child families t1..t4 and the
\* transform applied to each quadrant, per parent orientation.
BuildCurve10H(o) ==
    CASE o = "A" -> [o |-> <<"C", "D", "B", "C">>, t |-> <<5, 5, 5, 5>>, f |-> <<"reflect", "reflect", "reverse", "reverse">>]
      [] o = "B" -> [o |-> <<"D", "D", "A", "C">>, t |-> <<5, 5, 5, 5>>, f |-> <<"reflect", "reverse", "reverse", "reflect">>]
      [] o = "C" -> [o |-> <<"D", "A", "A", "B">>, t |-> <<5, 5, 5, 5>>, f |-> <<"reverse", "reverse", "reflect", "reflect">>]
      [] o = "D" -> [o |-> <<"C", "A", "B", "B">>, t |-> <<5, 5, 5, 5>>, f |-> <<"reverse", "reflect", "reflect", "reverse">>]

\* hilbertcurve.cpp:1354-1431  child orientations o1..o4, child families t1..t4 and the
\* transform applied to each quadrant, per parent orientation.
BuildCurve11H(o) ==
    CASE o = "A" -> [o |-> <<"C", "D", "B", "B">>, t |-> <<5, 5, 5, 5>>, f |-> <<"reflect", "reflect", "reverse", "reflect">>]
      [] o = "B" -> [o |-> <<"C", "D", "A", "C">>, t |-> <<5, 5, 5, 5>>, f |-> <<"reverse", "reverse", "reverse", "reflect">>]
      [] o = "C" -> [o |-> <<"D", "D", "A", "B">>, t |-> <<5, 5, 5, 5>>, f |-> <<"reverse", "reflect", "reflect", "reflect">>]
      [] o = "D" -> [o |-> <<"C", "A", "A", "B">>, t |-> <<5, 5, 5, 5>>, f |-> <<"reverse", "reflect", "reverse", "reverse">>]

\* hilbertcurve.cpp:1432-1494  child orientations o1..o4, child families t1..t4 and the
\* transform applied to each quadrant, per parent orientation.
BuildCurve12H(o) ==
    CASE o = "A" -> [o |-> <<"B", "A", "A", "D">>, t |-> <<3, 5, 5, 3>>, f |-> <<"none", "reflectAndReverse", "none", "none">>]
      [] o = "B" -> [o |-> <<"A", "C", "B", "B">>, t |-> <<3, 3, 5, 5>>, f |-> <<"none", "none", "none", "reflectAndReverse">>]
      [] o = "C" -> [o |-> <<"C", "B", "D", "C">>, t |-> <<5, 3, 3, 5>>, f |-> <<"none", "none", "none", "reflectAndReverse">>]
      [] o = "D" -> [o |-> <<"D", "D", "C", "A">>, t |-> <<5, 5, 3, 3>>, f |-> <<"none", "reflectAndReverse", "none", "none">>]

\* hilbertcurve.cpp:1495-1561  child orientations o1..o4, child families t1..t4 and the
\* transform applied to each quadrant, per parent orientation.
BuildCurve13H(o) ==
    CASE o = "A" -> [o |-> <<"D", "D", "B", "B">>, t |-> <<3, 5, 5, 3>>, f |-> <<"reverse", "reflect", "reverse", "reverse">>]
      [] o = "B" -> [o |-> <<"C", "A", "A", "C">>, t |-> <<3, 3, 5, 5>>, f |-> <<"reverse", "reverse", "reverse", "reflect">>]
      [] o = "C" -> [o |-> <<"D", "D", "B", "B">>, t |-> <<5, 3, 3, 5>>, f |-> <<"reverse", "reverse", "reverse", "reflect">>]
      [] o = "D" -> [o |-> <<"C", "A", "A", "C">>, t |-> <<5, 5, 3, 3>>, f |-> <<"reverse", "reflect", "reverse", "reverse">>]

\* hilbertcurve.cpp:1562-1630  child orientations o1..o4, child families t1..t4 and the
\* transform applied to each quadrant, per parent orientation.
BuildCurve14H(o) ==
    CASE o = "A" -> [o |-> <<"B", "A", "A", "D">>, t |-> <<3, 5, 5, 5>>, f |-> <<"none", "reflectAndReverse", "none", "none">>]
      [] o = "B" -> [o |-> <<"A", "C", "B", "B">>, t |-> <<5, 3, 5, 5>>, f |-> <<"reflectAndReverse", "none", "none", "reflectAndReverse">>]
      [] o = "C" -> [o |-> <<"C", "B", "D", "C">>, t |-> <<5, 5, 3, 5>>, f |-> <<"none", "none", "none", "reflectAndReverse">>]
      [] o = "D" -> [o |-> <<"D", "D", "C", "A">>, t |-> <<5, 5, 5, 3>>, f |-> <<"none", "reflectAndReverse", "reflectAndReverse", "none">>]

\* hilbertcurve.cpp:1631-1709  child orientations o1..o4, child families t1..t4 and the
\* transform applied to each quadrant, per parent orientation.
BuildCurve15H(o) ==
    CASE o = "A" -> [o |-> <<"D", "D", "B", "C">>, t |-> <<3, 5, 5, 5>>, f |-> <<"reverse", "reflect", "reverse", "reverse">>]
      [] o = "B" -> [o |-> <<"D", "A", "A", "C">>, t |-> <<5, 3, 5, 5>>, f |-> <<"reflect", "reverse", "reverse", "reflect">>]
      [] o = "C" -> [o |-> <<"D", "A", "B", "B">>, t |-> <<5, 5, 3, 5>>, f |-> <<"reverse", "reverse", "reverse", "reflect">>]
      [] o = "D" -> [o |-> <<"C", "A", "B", "C">>, t |-> <<5, 5, 5, 3>>, f |-> <<"reverse", "reflect", "reflect", "reverse">>]

\* hilbertcurve.cpp:1710-1778  child orientations o1..o4, child families t1..t4 and the
\* transform applied to each quadrant, per parent orientation.
BuildCurve16H(o) ==
    CASE o = "A" -> [o |-> <<"B", "A", "A", "C">>, t |-> <<3, 5, 5, 5>>, f |-> <<"none", "reflectAndReverse", "none", "reflectAndReverse">>]
      [] o = "B" -> [o |-> <<"D", "C", "B", "B">>, t |-> <<5, 3, 5, 5>>, f |-> <<"none", "none", "none", "reflectAndReverse">>]
      [] o = "C" -> [o |-> <<"C", "A", "D", "C">>, t |-> <<5, 5, 3, 5>>, f |-> <<"none", "reflectAndReverse", "none", "reflectAndReverse">>]
      [] o = "D" -> [o |-> <<"D", "D", "B", "A">>, t |-> <<5, 5, 5, 3>>, f |-> <<"none", "reflectAndReverse", "none", "none">>]

\* hilbertcurve.cpp:1779-1858  child orientations o1..o4, child families t1..t4 and the
\* transform applied to each quadrant, per parent orientation.
BuildCurve17H(o) ==
    CASE o = "A" -> [o |-> <<"D", "D", "B", "B">>, t |-> <<3, 5, 5, 5>>, f |-> <<"reverse", "reflect", "reverse", "reflect">>]
      [] o = "B" -> [o |-> <<"C", "A", "A", "C">>, t |-> <<5, 3, 5, 5>>, f |-> <<"reverse", "reverse", "reverse", "reflect">>]
      [] o = "C" -> [o |-> <<"D", "D", "B", "B">>, t |-> <<5, 5, 3, 5>>, f |-> <<"reverse", "reflect", "reverse", "reflect">>]
      [] o = "D" -> [o |-> <<"C", "A", "A", "C">>, t |-> <<5, 5, 5, 3>>, f |-> <<"reverse", "reflect", "reverse", "reverse">>]

\* hilbertcurve.cpp:1859-1921  child orientations o1..o4, child families t1..t4 and the
\* transform applied to each quadrant, per parent orientation.
BuildCurve18H(o) ==
    CASE o = "A" -> [o |-> <<"B", "A", "A", "D">>, t |-> <<4, 0, 0, 4>>, f |-> <<"reflectAndReverse", "none", "none", "none">>]
      [] o = "B" -> [o |-> <<"A", "C", "B", "B">>, t |-> <<4, 4, 0, 0>>, f |-> <<"reflectAndReverse", "none", "none", "none">>]
      [] o = "C" -> [o |-> <<"C", "B", "D", "C">>, t |-> <<0, 4, 4, 0>>, f |-> <<"none", "none", "reflectAndReverse", "none">>]
      [] o = "D" -> [o |-> <<"D", "D", "C", "A">>, t |-> <<0, 0, 4, 4>>, f |-> <<"none", "none", "reflectAndReverse", "none">>]

\* hilbertcurve.cpp:1922-1984  child orientations o1..o4, child families t1..t4 and the
\* transform applied to each quadrant, per parent orientation.
BuildCurve19H(o) ==
    CASE o = "A" -> [o |-> <<"C", "A", "A", "C">>, t |-> <<4, 0, 0, 4>>, f |-> <<"reflectAndReverse", "none", "none", "none">>]
      [] o = "B" -> [o |-> <<"D", "D", "B", "B">>, t |-> <<4, 4, 0, 0>>, f |-> <<"reflectAndReverse", "none", "none", "none">>]
      [] o = "C" -> [o |-> <<"C", "A", "A", "C">>, t |-> <<0, 4, 4, 0>>, f |-> <<"none", "none", "reflectAndReverse", "none">>]
      [] o = "D" -> [o |-> <<"D", "D", "B", "B">>, t |-> <<0, 0, 4, 4>>, f |-> <<"none", "none", "reflectAndReverse", "none">>]

\* hilbertcurve.cpp:1985-2047  child orientations o1..o4, child families t1..t4 and the
\* transform applied to each quadrant, per parent orientation.
BuildCurve20H(o) ==
    CASE o = "A" -> [o |-> <<"B", "A", "A", "C">>, t |-> <<4, 0, 0, 4>>, f |-> <<"reflectAndReverse", "none", "none", "none">>]
      [] o = "B" -> [o |-> <<"D", "C", "B", "B">>, t |-> <<4, 4, 0, 0>>, f |-> <<"reflectAndReverse", "none", "none", "none">>]
      [] o = "C" -> [o |-> <<"C", "A", "D", "C">>, t |-> <<0, 4, 4, 0>>, f |-> <<"none", "none", "reflectAndReverse", "none">>]
      [] o = "D" -> [o |-> <<"D", "D", "B", "A">>, t |-> <<0, 0, 4, 4>>, f |-> <<"none", "none", "reflectAndReverse", "none">>]

\* hilbertcurve.cpp:2048-2114  child orientations o1..o4, child families t1..t4 and the
\* transform applied to each quadrant, per parent orientation.
BuildCurve21H(o) ==
    CASE o = "A" -> [o |-> <<"C", "D", "B", "C">>, t |-> <<4, 0, 0, 4>>, f |-> <<"reverse", "reverse", "reverse", "reflect">>]
      [] o = "B" -> [o |-> <<"D", "D", "A", "C">>, t |-> <<4, 4, 0, 0>>, f |-> <<"reverse", "reflect", "reverse", "reverse">>]
      [] o = "C" -> [o |-> <<"D", "A", "A", "B">>, t |-> <<0, 4, 4, 0>>, f |-> <<"reverse", "reflect", "reverse", "reverse">>]
      [] o = "D" -> [o |-> <<"C", "A", "B", "B">>, t |-> <<0, 0, 4, 4>>, f |-> <<"reverse", "reverse", "reverse", "reflect">>]

\* hilbertcurve.cpp:2115-2181  child orientations o1..o4, child families t1..t4 and the
\* transform applied to each quadrant, per parent orientation.
BuildCurve22H(o) ==
    CASE o = "A" -> [o |-> <<"D", "D", "B", "B">>, t |-> <<4, 0, 0, 4>>, f |-> <<"reverse", "reverse", "reverse", "reflect">>]
      [] o = "B" -> [o |-> <<"C", "A", "A", "C">>, t |-> <<4, 4, 0, 0>>, f |-> <<"reverse", "reflect", "reverse", "reverse">>]
      [] o = "C" -> [o |-> <<"D", "D", "B", "B">>, t |-> <<0, 4, 4, 0>>, f |-> <<"reverse", "reflect", "reverse", "reverse">>]
      [] o = "D" -> [o |-> <<"C", "A", "A", "C">>, t |-> <<0, 0, 4, 4>>, f |-> <<"reverse", "reverse", "reverse", "reflect">>]

\* hilbertcurve.cpp:2182-2247  child orientations o1..o4, child families t1..t4 and the
\* transform applied to each quadrant, per parent orientation.
BuildCurve23H(o) ==
    CASE o = "A" -> [o |-> <<"D", "D", "B", "C">>, t |-> <<4, 0, 0, 4>>, f |-> <<"reverse", "reverse", "reverse", "reflect">>]
      [] o = "B" -> [o |-> <<"D", "A", "A", "C">>, t |-> <<4, 4, 0, 0>>, f |-> <<"reverse", "reflect", "reverse", "reverse">>]
      [] o = "C" -> [o |-> <<"D", "A", "B", "B">>, t |-> <<0, 4, 4, 0>>, f |-> <<"reverse", "reflect", "reverse", "reverse">>]
      [] o = "D" -> [o |-> <<"C", "A", "B", "C">>, t |-> <<0, 0, 4, 4>>, f |-> <<"reverse", "reverse", "reverse", "reflect">>]

\* hilbertcurve.cpp:2248-2317  child orientations o1..o4, child families t1..t4 and the
\* transform applied to each quadrant, per parent orientation.
BuildCurve24H(o) ==
    CASE o = "A" -> [o |-> <<"C", "D", "B", "B">>, t |-> <<0, 0, 0, 4>>, f |-> <<"reverse", "reverse", "reverse", "reflect">>]
      [] o = "B" -> [o |-> <<"C", "D", "A", "C">>, t |-> <<4, 0, 0, 0>>, f |-> <<"reverse", "reverse", "reverse", "reverse">>]
      [] o = "C" -> [o |-> <<"D", "D", "A", "B">>, t |-> <<0, 4, 0, 0>>, f |-> <<"reverse", "reflect", "reverse", "reverse">>]
      [] o = "D" -> [o |-> <<"C", "A", "A", "B">>, t |-> <<0, 0, 4, 0>>, f |-> <<"reverse", "reverse", "reverse", "reverse">>]

\* hilbertcurve.cpp:2318-2387  child orientations o1..o4, child families t1..t4 and the
\* transform applied to each quadrant, per parent orientation.
BuildCurve25H(o) ==
    CASE o = "A" -> [o |-> <<"D", "D", "B", "C">>, t |-> <<0, 0, 0, 4>>, f |-> <<"reverse", "reverse", "reverse", "reflect">>]
      [] o = "B" -> [o |-> <<"D", "A", "A", "C">>, t |-> <<4, 0, 0, 0>>, f |-> <<"reverse", "reverse", "reverse", "reverse">>]
      [] o = "C" -> [o |-> <<"D", "A", "B", "B">>, t |-> <<0, 4, 0, 0>>, f |-> <<"reverse", "reflect", "reverse", "reverse">>]
      [] o = "D" -> [o |-> <<"C", "A", "B", "C">>, t |-> <<0, 0, 4, 0>>, f |-> <<"reverse", "reverse", "reverse", "reverse">>]

\* hilbertcurve.cpp:2388-2457  child orientations o1..o4, child families t1..t4 and the
\* transform applied to each quadrant, per parent orientation.
BuildCurve26H(o) ==
    CASE o = "A" -> [o |-> <<"D", "D", "B", "B">>, t |-> <<0, 0, 0, 4>>, f |-> <<"reverse", "reverse", "reverse", "reflect">>]
      [] o = "B" -> [o |-> <<"C", "A", "A", "C">>, t |-> <<4, 0, 0, 0>>, f |-> <<"reverse", "reverse", "reverse", "reverse">>]
      [] o = "C" -> [o |-> <<"D", "D", "B", "B">>, t |-> <<0, 4, 0, 0>>, f |-> <<"reverse", "reflect", "reverse", "reverse">>]
      [] o = "D" -> [o |-> <<"C", "A", "A", "C">>, t |-> <<0, 0, 4, 0>>, f |-> <<"reverse", "reverse", "reverse", "reverse">>]

\* hilbertcurve.cpp:2458-2522  child orientations o1..o4, child families t1..t4 and the
\* transform applied to each quadrant, per parent orientation.
BuildCurve27H(o) ==
    CASE o = "A" -> [o |-> <<"C", "A", "A", "C">>, t |-> <<0, 0, 0, 4>>, f |-> <<"none", "none", "none", "none">>]
      [] o = "B" -> [o |-> <<"D", "D", "B", "B">>, t |-> <<4, 0, 0, 0>>, f |-> <<"reflectAndReverse", "none", "none", "none">>]
      [] o = "C" -> [o |-> <<"C", "A", "A", "C">>, t |-> <<0, 4, 0, 0>>, f |-> <<"none", "none", "none", "none">>]
      [] o = "D" -> [o |-> <<"D", "D", "B", "B">>, t |-> <<0, 0, 4, 0>>, f |-> <<"none", "none", "reflectAndReverse", "none">>]

\* hilbertcurve.cpp:2523-2587  child orientations o1..o4, child families t1..t4 and the
\* transform applied to each quadrant, per parent orientation.
BuildCurve28H(o) ==
    CASE o = "A" -> [o |-> <<"C", "A", "A", "D">>, t |-> <<0, 0, 0, 4>>, f |-> <<"none", "none", "none", "none">>]
      [] o = "B" -> [o |-> <<"A", "D", "B", "B">>, t |-> <<4, 0, 0, 0>>, f |-> <<"reflectAndReverse", "none", "none", "none">>]
      [] o = "C" -> [o |-> <<"C", "B", "A", "C">>, t |-> <<0, 4, 0, 0>>, f |-> <<"none", "none", "none", "none">>]
      [] o = "D" -> [o |-> <<"D", "D", "C", "B">>, t |-> <<0, 0, 4, 0>>, f |-> <<"none", "none", "reflectAndReverse", "none">>]

\* hilbertcurve.cpp:2588-2652  child orientations o1..o4, child families t1..t4 and the
\* transform applied to each quadrant, per parent orientation.
BuildCurve29H(o) ==
    CASE o = "A" -> [o |-> <<"B", "A", "A", "C">>, t |-> <<0, 0, 0, 4>>, f |-> <<"none", "none", "none", "none">>]
      [] o = "B" -> [o |-> <<"D", "D", "B", "B">>, t |-> <<4, 0, 0, 0>>, f |-> <<"reflectAndReverse", "none", "none", "none">>]
      [] o = "C" -> [o |-> <<"C", "A", "D", "C">>, t |-> <<0, 4, 0, 0>>, f |-> <<"none", "none", "none", "none">>]
      [] o = "D" -> [o |-> <<"D", "D", "B", "A">>, t |-> <<0, 0, 4, 0>>, f |-> <<"none", "none", "reflectAndReverse", "none">>]

\* hilbertcurve.cpp:2653-2717  child orientations o1..o4, child families t1..t4 and the
\* transform applied to each quadrant, per parent orientation.
BuildCurve30H(o) ==
    CASE o = "A" -> [o |-> <<"B", "A", "A", "D">>, t |-> <<0, 0, 0, 4>>, f |-> <<"none", "none", "none", "none">>]
      [] o = "B" -> [o |-> <<"A", "C", "B", "B">>, t |-> <<4, 0, 0, 0>>, f |-> <<"reflectAndReverse", "none", "none", "none">>]
      [] o = "C" -> [o |-> <<"C", "B", "D", "C">>, t |-> <<0, 4, 0, 0>>, f |-> <<"none", "none", "none", "none">>]
      [] o = "D" -> [o |-> <<"D", "D", "C", "A">>, t |-> <<0, 0, 4, 0>>, f |-> <<"none", "none", "reflectAndReverse", "none">>]

\* hilbertcurve.cpp:2718-2787  child orientations o1..o4, child families t1..t4 and the
\* transform applied to each quadrant, per parent orientation.
BuildCurve31H(o) ==
    CASE o = "A" -> [o |-> <<"C", "D", "B", "C">>, t |-> <<0, 0, 0, 4>>, f |-> <<"reverse", "reverse", "reverse", "reflect">>]
      [] o = "B" -> [o |-> <<"D", "D", "A", "C">>, t |-> <<4, 0, 0, 0>>, f |-> <<"reverse", "reverse", "reverse", "reverse">>]
      [] o = "C" -> [o |-> <<"D", "A", "A", "B">>, t |-> <<0, 4, 0, 0>>, f |-> <<"reverse", "reflect", "reverse", "reverse">>]
      [] o = "D" -> [o |-> <<"C", "A", "B", "B">>, t |-> <<0, 0, 4, 0>>, f |-> <<"reverse", "reverse", "reverse", "reverse">>]

\* hilbertcurve.cpp:2788-2850  child orientations o1..o4, child families t1..t4 and the
\* transform applied to each quadrant, per parent orientation.
BuildCurve32H(o) ==
    CASE o = "A" -> [o |-> <<"C", "A", "A", "C">>, t |-> <<1, 5, 5, 1>>, f |-> <<"none", "reflectAndReverse", "none", "none">>]
      [] o = "B" -> [o |-> <<"D", "D", "B", "B">>, t |-> <<1, 1, 5, 5>>, f |-> <<"none", "none", "none", "reflectAndReverse">>]
      [] o = "C" -> [o |-> <<"C", "A", "A", "C">>, t |-> <<5, 1, 1, 5>>, f |-> <<"none", "none", "none", "reflectAndReverse">>]
      [] o = "D" -> [o |-> <<"D", "D", "B", "B">>, t |-> <<5, 5, 1, 1>>, f |-> <<"none", "reflectAndReverse", "none", "none">>]

\* hilbertcurve.cpp:2851-2917  child orientations o1..o4, child families t1..t4 and the
\* transform applied to each quadrant, per parent orientation.
BuildCurve33H(o) ==
    CASE o = "A" -> [o |-> <<"C", "D", "B", "C">>, t |-> <<1, 5, 5, 1>>, f |-> <<"reverse", "reflect", "reverse", "reverse">>]
      [] o = "B" -> [o |-> <<"D", "D", "A", "C">>, t |-> <<1, 1, 5, 5>>, f |-> <<"reverse", "reverse", "reverse", "reflect">>]
      [] o = "C" -> [o |-> <<"D", "A", "A", "B">>, t |-> <<5, 1, 1, 5>>, f |-> <<"reverse", "reverse", "reverse", "reflect">>]
      [] o = "D" -> [o |-> <<"C", "A", "B", "B">>, t |-> <<5, 5, 1, 1>>, f |-> <<"reverse", "reflect", "reverse", "reverse">>]

\* hilbertcurve.cpp:2918-2986  child orientations o1..o4, child families t1..t4 and the
\* transform applied to each quadrant, per parent orientation.
BuildCurve34H(o) ==
    CASE o = "A" -> [o |-> <<"C", "A", "A", "C">>, t |-> <<5, 5, 5, 1>>, f |-> <<"none", "reflectAndReverse", "none", "none">>]
      [] o = "B" -> [o |-> <<"D", "D", "B", "B">>, t |-> <<1, 5, 5, 5>>, f |-> <<"none", "reflectAndReverse", "none", "reflectAndReverse">>]
      [] o = "C" -> [o |-> <<"C", "A", "A", "C">>, t |-> <<5, 1, 5, 5>>, f |-> <<"none", "none", "none", "reflectAndReverse">>]
      [] o = "D" -> [o |-> <<"D", "D", "B", "B">>, t |-> <<5, 5, 1, 5>>, f |-> <<"none", "reflectAndReverse", "none", "reflectAndReverse">>]

\* hilbertcurve.cpp:2987-3056  child orientations o1..o4, child families t1..t4 and the
\* transform applied to each quadrant, per parent orientation.
BuildCurve35H(o) ==
    CASE o = "A" -> [o |-> <<"D", "D", "B", "C">>, t |-> <<5, 5, 5, 1>>, f |-> <<"reverse", "reflect", "reverse", "reverse">>]
      [] o = "B" -> [o |-> <<"D", "A", "A", "C">>, t |-> <<1, 5, 5, 5>>, f |-> <<"reverse", "reflect", "reverse", "reflect">>]
      [] o = "C" -> [o |-> <<"D", "A", "B", "B">>, t |-> <<5, 1, 5, 5>>, f |-> <<"reverse", "reverse", "reverse", "reflect">>]
      [] o = "D" -> [o |-> <<"C", "A", "B", "C">>, t |-> <<5, 5, 1, 5>>, f |-> <<"reverse", "reflect", "reverse", "reflect">>]

\* hilbertcurve.cpp:3057-3125  child orientations o1..o4, child families t1..t4 and the
\* transform applied to each quadrant, per parent orientation.
BuildCurve36H(o) ==
    CASE o = "A" -> [o |-> <<"B", "A", "A", "C">>, t |-> <<5, 5, 5, 1>>, f |-> <<"reflectAndReverse", "reflectAndReverse", "none", "none">>]
      [] o = "B" -> [o |-> <<"D", "C", "B", "B">>, t |-> <<1, 5, 5, 5>>, f |-> <<"none", "none", "none", "reflectAndReverse">>]
      [] o = "C" -> [o |-> <<"C", "A", "D", "C">>, t |-> <<5, 1, 5, 5>>, f |-> <<"none", "none", "reflectAndReverse", "reflectAndReverse">>]
      [] o = "D" -> [o |-> <<"D", "D", "B", "A">>, t |-> <<5, 5, 1, 5>>, f |-> <<"none", "reflectAndReverse", "none", "none">>]

\* hilbertcurve.cpp:3126-3204  child orientations o1..o4, child families t1..t4 and the
\* transform applied to each quadrant, per parent orientation.
BuildCurve37H(o) ==
    CASE o = "A" -> [o |-> <<"C", "D", "B", "C">>, t |-> <<5, 5, 5, 1>>, f |-> <<"reflect", "reflect", "reverse", "reverse">>]
      [] o = "B" -> [o |-> <<"D", "D", "A", "C">>, t |-> <<1, 5, 5, 5>>, f |-> <<"reverse", "reverse", "reverse", "reflect">>]
      [] o = "C" -> [o |-> <<"D", "A", "A", "B">>, t |-> <<5, 1, 5, 5>>, f |-> <<"reverse", "reverse", "reflect", "reflect">>]
      [] o = "D" -> [o |-> <<"C", "A", "B", "B">>, t |-> <<5, 5, 1, 5>>, f |-> <<"reverse", "reflect", "reverse", "reverse">>]

\* hilbertcurve.cpp:3205-3264  child orientations o1..o4, child families t1..t4 and the
\* transform applied to each quadrant, per parent orientation.
BuildCurve38H(o) ==
    CASE o = "A" -> [o |-> <<"B", "A", "A", "C">>, t |-> <<3, 5, 5, 1>>, f |-> <<"none", "reflectAndReverse", "none", "none">>]
      [] o = "B" -> [o |-> <<"D", "C", "B", "B">>, t |-> <<1, 3, 5, 5>>, f |-> <<"none", "none", "none", "reflectAndReverse">>]
      [] o = "C" -> [o |-> <<"C", "A", "D", "C">>, t |-> <<5, 1, 3, 5>>, f |-> <<"none", "none", "none", "reflectAndReverse">>]
      [] o = "D" -> [o |-> <<"D", "D", "B", "A">>, t |-> <<5, 5, 1, 3>>, f |-> <<"none", "reflectAndReverse", "none", "none">>]

\* BuildCurve39H whose case D leaves o3 unassigned: the third quadrant is
\* constructed with whatever the variable holds
BuildCurve39H_unassigned(o) ==
    CASE o = "A" -> [o |-> <<"D", "D", "B", "C">>, t |-> <<3, 5, 5, 1>>, f |-> <<"reverse", "reflect", "reverse", "reverse">>]
      [] o = "B" -> [o |-> <<"D", "A", "A", "C">>, t |-> <<1, 3, 5, 5>>, f |-> <<"reverse", "reverse", "reverse", "reflect">>]
      [] o = "C" -> [o |-> <<"D", "A", "B", "B">>, t |-> <<5, 1, 3, 5>>, f |-> <<"reverse", "reverse", "reverse", "reflect">>]
      [] o = "D" -> [o |-> <<"C", "A", "InvalidOrientation", "C">>, t |-> <<5, 5, 1, 3>>, f |-> <<"reverse", "reflect", "reverse", "reverse">>]

\* hilbertcurve.cpp:3265-3325  child orientations o1..o4, child families t1..t4 and the
\* transform applied to each quadrant, per parent orientation.
BuildCurve39H(o) ==
    CASE o = "A" -> [o |-> <<"D", "D", "B", "C">>, t |-> <<3, 5, 5, 1>>, f |-> <<"reverse", "reflect", "reverse", "reverse">>]
      [] o = "B" -> [o |-> <<"D", "A", "A", "C">>, t |-> <<1, 3, 5, 5>>, f |-> <<"reverse", "reverse", "reverse", "reflect">>]
      [] o = "C" -> [o |-> <<"D", "A", "B", "B">>, t |-> <<5, 1, 3, 5>>, f |-> <<"reverse", "reverse", "reverse", "reflect">>]
      [] o = "D" -> [o |-> <<"C", "A", "B", "C">>, t |-> <<5, 5, 1, 3>>, f |-> <<"reverse", "reflect", "reverse", "reverse">>]
\* hilbertcurve.cpp:580-705  HilbertCurve::Build, the switch on m_type
Production(t, o) ==
    CASE t = 1 -> BuildCurve1H(o)   [] t = 2 -> BuildCurve2H(o)
      [] t = 3 -> BuildCurve3H(o)   [] t = 4 -> BuildCurve4H(o)
      [] t = 5 -> BuildCurve5H(o)   [] t = 6 -> BuildCurve6H(o)
      [] t = 7 -> BuildCurve7H(o)   [] t = 8 -> BuildCurve8H(o)
      [] t = 9 -> BuildCurve9H(o)   [] t = 10 -> BuildCurve10H(o)
      [] t = 11 -> BuildCurve11H(o) [] t = 12 -> BuildCurve12H(o)
      [] t = 13 -> BuildCurve13H(o) [] t = 14 -> BuildCurve14H(o)
      [] t = 15 -> BuildCurve15H(o) [] t = 16 -> BuildCurve16H(o)
      [] t = 17 -> BuildCurve17H(o) [] t = 18 -> BuildCurve18H(o)
      [] t = 19 -> BuildCurve19H(o) [] t = 20 -> BuildCurve20H(o)
      [] t = 21 -> BuildCurve21H(o) [] t = 22 -> BuildCurve22H(o)
      [] t = 23 -> BuildCurve23H(o) [] t = 24 -> BuildCurve24H(o)
      [] t = 25 -> BuildCurve25H(o) [] t = 26 -> BuildCurve26H(o)
      [] t = 27 -> BuildCurve27H(o) [] t = 28 -> BuildCurve28H(o)
      [] t = 29 -> BuildCurve29H(o) [] t = 30 -> BuildCurve30H(o)
      [] t = 31 -> BuildCurve31H(o) [] t = 32 -> BuildCurve32H(o)
      [] t = 33 -> BuildCurve33H(o) [] t = 34 -> BuildCurve34H(o)
      [] t = 35 -> BuildCurve35H(o) [] t = 36 -> BuildCurve36H(o)
      [] t = 37 -> BuildCurve37H(o) [] t = 38 -> BuildCurve38H(o)
      [] t = 39 -> BuildCurve39H(o)

\* ------------------------------------------------------------ transforms
RECURSIVE Rev(_)
Rev(s) == IF s = << >> THEN << >> ELSE Append(Rev(Tail(s)), Head(s))

\* hilbertcurve.cpp:3495-3498  reverse_parallel on m_curve; below the block
\* threshold (hpoint.h:178-181) it is std::reverse
reverse(c) == [c EXCEPT !.m_curve = Rev(c.m_curve)]

\* reflectX without the 2 * coord.X() term: the mirror of a curve whose
\* origin is not 0
reflectX_origin(c) ==
    [c EXCEPT !.m_curve =
        [i \in DOMAIN c.m_curve |->
            [c.m_curve[i] EXCEPT !.x = c.m - 1 - c.m_curve[i].x]]]

\* hilbertcurve.cpp:3389-3401
reflectX(c) ==
    [c EXCEPT !.m_curve =
        [i \in DOMAIN c.m_curve |->
            [c.m_curve[i] EXCEPT !.x = c.m - 1 - c.m_curve[i].x + 2 * c.coord.x]]]

\* hilbertcurve.cpp:3406-3417
reflectY(c) ==
    [c EXCEPT !.m_curve =
        [i \in DOMAIN c.m_curve |->
            [c.m_curve[i] EXCEPT !.y = c.n - 1 - c.m_curve[i].y + 2 * c.coord.y]]]

\* hilbertcurve.cpp:3507-3516
reflect(c) == IF c.oABCD \in {"A", "C"} THEN reflectX(c) ELSE reflectY(c)

\* hilbertcurve.cpp:3486-3490
reflectAndReverse(c) == reverse(reflect(c))

Transform(f, c) ==
    CASE f = "reverse" -> reverse(c)
      [] f = "reflect" -> reflect(c)
      [] f = "reflectAndReverse" -> reflectAndReverse(c)
      [] f = "none" -> c

\* joinCurve with a copy-paste slip in case B (cuadrant4 inserted twice,
\* cuadrant2 never)
joinCurve_dup(o, cuadrant1, cuadrant2, cuadrant3, cuadrant4) ==
    LET q1 == cuadrant1.m_curve
        q2 == cuadrant2.m_curve
        q3 == cuadrant3.m_curve
        q4 == cuadrant4.m_curve
    IN  CASE o = "A" -> q1 \o q2 \o q3 \o q4
          [] o = "B" -> q1 \o q4 \o q3 \o q4
          [] o = "C" -> q3 \o q4 \o q1 \o q2
          [] o = "D" -> q3 \o q2 \o q1 \o q4

\* joinCurve with the cases B and D exchanged
joinCurve_swapped(o, cuadrant1, cuadrant2, cuadrant3, cuadrant4) ==
    LET q1 == cuadrant1.m_curve
        q2 == cuadrant2.m_curve
        q3 == cuadrant3.m_curve
        q4 == cuadrant4.m_curve
    IN  CASE o = "A" -> q1 \o q2 \o q3 \o q4
          [] o = "B" -> q3 \o q2 \o q1 \o q4
          [] o = "C" -> q3 \o q4 \o q1 \o q2
          [] o = "D" -> q1 \o q4 \o q3 \o q2

\* hilbertcurve.cpp:3431-3480  the new m_curve of the parent
joinCurve(o, cuadrant1, cuadrant2, cuadrant3, cuadrant4) ==
    LET q1 == cuadrant1.m_curve
        q2 == cuadrant2.m_curve
        q3 == cuadrant3.m_curve
        q4 == cuadrant4.m_curve
    IN  CASE o = "A" -> q1 \o q2 \o q3 \o q4
          [] o = "B" -> q1 \o q4 \o q3 \o q2
          [] o = "C" -> q3 \o q4 \o q1 \o q2
          [] o = "D" -> q3 \o q2 \o q1 \o q4

\* hilbertcurve.cpp:3353-3364  HilbertCurve(width, height, type, coord,
\* orientation) without the discontinuity pass: QuasiSquare(height, width, ..)
\* and Build().  For a composed family Build runs BuildCurve<k>H: the common
\* frame of those 39 functions (e.g. hilbertcurve.cpp:820-825, 849-860) splits
\* the region, constructs the four quadrant curves, transforms them and joins.
RECURSIVE HilbertCurve(_, _, _, _, _)
HilbertCurve(width, height, type, origen, orientation) ==
    LET c0 == [n |-> height, m |-> width, coord |-> origen, oABCD |-> orientation,
               m_type |-> type, m_curve |-> << >>]
    IN  IF type = 0 THEN [c0 EXCEPT !.m_curve = BuildCurveH0(c0)]
        ELSE
        LET w2 == width \div 2
            w1 == width - w2
            h2 == height \div 2
            h1 == height - h2
            p  == Production(type, orientation)
            At(dx, dy) == HPoint(origen.x + dx, origen.y + dy)
            cuadrant1 == Transform(p.f[1], HilbertCurve(w1, h1, p.t[1], At(0, 0), p.o[1]))
            cuadrant2 == Transform(p.f[2], HilbertCurve(w1, h2, p.t[2], At(0, h1), p.o[2]))
            cuadrant3 == Transform(p.f[3], HilbertCurve(w2, h2, p.t[3], At(w1, h1), p.o[3]))
            cuadrant4 == Transform(p.f[4], HilbertCurve(w2, h1, p.t[4], At(w1, 0), p.o[4]))
        IN  [c0 EXCEPT !.m_curve =
                joinCurve(orientation, cuadrant1, cuadrant2, cuadrant3, cuadrant4)]

curveVars == <<m_type, n, m, oABCD, m_curve>>
poolVars == <<work_queue, unfinish_tasks, wpc, stack, writes>>
dimVars == <<lenght, dim>>
plotVars == <<m_data, m_min, m_max, m_plotToCurve, ret>>
fftVars == <<dataoutput, spectrum>>
cmpVars == <<operands, cmp>>
restVars == <<fftVars, cmpVars, builds>>
moreVars == <<coord, difference, m_mean_difference, partition_vec, restVars>>
vars == <<pc, m_type, n, m, oABCD, m_curve, work_queue, unfinish_tasks, wpc, stack, writes,
          lenght, dim, m_data, m_min, m_max, m_plotToCurve, ret,
          coord, difference, m_mean_difference, partition_vec,
          dataoutput, spectrum, operands, cmp, builds>>

\* no transform computed
NoFourier ==
    /\ dataoutput = << >>
    /\ spectrum = << >>

\* no comparison made
NoCompare ==
    /\ operands = << >>
    /\ cmp = << >>

\* no second build
NoBuilds == builds = << >>

NoRest == NoFourier /\ NoCompare /\ NoBuilds

\* origin (0,0), no discontinuity pass run, Partition not called
NoMore ==
    /\ NoRest
    /\ coord = [x |-> 0, y |-> 0, index |-> 0]
    /\ difference = << >>
    /\ m_mean_difference = [n |-> 0, d |-> 1]
    /\ partition_vec = << >>

\* no bestDimensions call and no plot
NoPlot ==
    /\ lenght = 0
    /\ dim = <<0, 0>>
    /\ m_data = << >>
    /\ m_min = [n |-> 0, d |-> 1]
    /\ m_max = [n |-> 0, d |-> 1]
    /\ m_plotToCurve = << >>
    /\ ret = "none"

\* the pool state of a client that has not started any build
PoolIdle ==
    /\ work_queue = << >>
    /\ unfinish_tasks = 0
    /\ wpc = [t \in 1..NumWorkers |-> "run_task"]
    /\ stack = [t \in 0..NumWorkers |-> << >>]
    /\ writes = << >>

\* ------------------------------------------------ curve construction (SpecCurve)
\* A client picks family, orientation and size, then constructs the curve.
InitCurve ==
    /\ pc = "new"
    /\ m_type \in CurveType
    /\ oABCD \in Orientation
    /\ n \in 1..MaxDim
    /\ m \in 1..MaxDim
    /\ m_curve = << >>
    /\ PoolIdle
    /\ NoPlot
    /\ NoMore

Construct ==
    /\ pc = "new"
    /\ pc' = "built"
    /\ m_curve' = HilbertCurve(m, n, m_type, HPoint(0, 0), oABCD).m_curve
    /\ UNCHANGED <<m_type, n, m, oABCD>>
    /\ UNCHANGED poolVars
    /\ UNCHANGED <<dimVars, moreVars, plotVars>>

NextCurve == Construct

SpecCurve == InitCurve /\ [][NextCurve]_vars

Cells(w, h) == {<<xx, yy>> : xx \in 0..(w - 1), yy \in 0..(h - 1)}
Manhattan(p, q) ==
    (IF p.x > q.x THEN p.x - q.x ELSE q.x - p.x) + (IF p.y > q.y THEN p.y - q.y ELSE q.y - p.y)

\* C1: a constructed curve of any family, orientation and size has exactly
\* width*height points and its (x,y) pairs are a bijection onto the grid.
C1_Bijection ==
    pc = "built" =>
        /\ Len(m_curve) = m * n
        /\ {<<m_curve[i].x, m_curve[i].y>> : i \in DOMAIN m_curve} = Cells(m, n)

C1_Witness == pc = "built" /\ m_type = 39 /\ oABCD = "D" /\ m = 3 /\ n = 4 /\ Len(m_curve) = 12

\* C2: in a constructed curve of any family, orientation and size, the points
\* at consecutive traversal positions are at Manhattan distance exactly 1.
C2_Adjacent ==
    pc = "built" =>
        \A i \in 1..(Len(m_curve) - 1) : Manhattan(m_curve[i], m_curve[i + 1]) = 1

\* ------------------------------------- H0 build through the pool (SpecPool)
\* Thread 0 is the caller of BuildCurveH0, threads 1..NumWorkers run
\* thread_pool::worker_thread.  A frame [qs, index, i] is one invocation of
\* QuasiSquare::BuildCurve whose for-loop counter is i.
Threads == 0..NumWorkers

Frame(qs, index) == [qs |-> qs, index |-> index, i |-> 0]

\* hilbertcurve.cpp:249  std::bind(&QuasiSquare::BuildCurve, qs, ref(list), index)
BoundTask(qs, index) == [qs |-> qs, index |-> index]

\* hilbertcurve.cpp:237
NeedsPartition(qs) == qs.n > 2 \/ qs.m > 2

Top(t) == stack[t][Len(stack[t])]
Pop(st) == SubSeq(st, 1, Len(st) - 1)
SetTop(st, fr) == [st EXCEPT ![Len(st)] = fr]

\* isWorking testing the queue instead of the outstanding-task counter
isWorking_queue == work_queue # << >>

\* threads_utility.h:139-142
isWorking == unfinish_tasks # 0

InitPool ==
    /\ pc = "new"
    /\ m_type = 0
    /\ oABCD \in Orientation
    /\ n \in 1..MaxPoolN
    /\ m \in 1..MaxPoolM
    /\ m_curve = << >>
    /\ PoolIdle
    /\ NoPlot
    /\ NoMore

\* The steps of a BuildCurve invocation that touch nothing but the thread's own
\* frames are taken together with the step before them:
\*   hilbertcurve.cpp:253-258  loop iterations 2 and 3 call the child directly,
\*   hilbertcurve.cpp:288-416  after the loop of a partitioned region no base case
\*                             applies and the invocation returns; so does a
\*                             region with n = 0 or m = 0.
\* Settle(st) is the stack when the thread stands before its next access to the
\* pool or to coordinates_list (or has returned from the outermost invocation).
\* The stack is bound once, as the element st of a one-element set, so that it
\* is a value and not an expression wherever the definition refers to it.
RECURSIVE Settle(_)
Settle(st0) ==
    CHOOSE settled \in
        {IF st = << >> THEN st
         ELSE LET fr == st[Len(st)]
                  qsv == Partition(fr.qs)
              IN  IF NeedsPartition(fr.qs)
                  THEN IF fr.i = 4 THEN Settle(Pop(st))
                       ELSE IF fr.i >= 2
                            THEN Settle(Append(SetTop(st, [fr EXCEPT !.i = @ + 1]),
                                               Frame(qsv[4 - fr.i],
                                                     ChildIndex(qsv, fr.index, fr.i))))
                            ELSE st
                  ELSE IF PrimitivePoints(fr.qs) = << >> THEN Settle(Pop(st))
                       ELSE st
         : st \in {st0}} : TRUE

\* hilbertcurve.cpp:804-805  m_curve.assign(n*m, 0); enter BuildCurve(m_curve, 0);
\* an empty region returns from it at once and the caller stands at the drain loop
StartBuild ==
    /\ pc = "new"
    /\ m_curve' = [k \in 1..(n * m) |-> HPoint(0, 0)]
    /\ writes' = [k \in 1..(n * m) |-> 0]
    /\ LET st == Settle(<<Frame(QuasiSquare(n, m, HPoint(0, 0), oABCD), 0)>>)
       IN  /\ stack' = [stack EXCEPT ![0] = st]
           /\ pc' = IF st = << >> THEN "drain" ELSE "build"
    /\ UNCHANGED <<m_type, n, m, oABCD, work_queue, unfinish_tasks, wpc>>
    /\ UNCHANGED <<dimVars, moreVars, plotVars>>

\* thread t is inside a BuildCurve invocation
Running(t) == stack[t] # << >> /\ (IF t = 0 THEN pc \in {"build", "task"} ELSE wpc[t] = "task")

\* hilbertcurve.cpp:805-812: the caller's position once thread t has stack st;
\* when BuildCurve(m_curve, 0) has returned the caller stands at the drain loop
AfterStep(t, st) == IF t = 0 /\ pc = "build" /\ st = << >> THEN "drain" ELSE pc

\* hilbertcurve.cpp:246-252 with threads_utility.h:99-109: loop iterations
\* 0 and 1 bind the child and push it to the pool (push_back, ++unfinish_tasks
\* under the mutex), then index += qs.n * qs.m
PushChild(t) ==
    /\ Running(t)
    /\ NeedsPartition(Top(t).qs) /\ Top(t).i < 2
    /\ LET fr == Top(t)
           qsv == Partition(fr.qs)
           qs == qsv[4 - fr.i]
           st == Settle(SetTop(stack[t], [fr EXCEPT !.i = @ + 1]))
       IN  /\ work_queue' = Append(work_queue, BoundTask(qs, ChildIndex(qsv, fr.index, fr.i)))
           /\ unfinish_tasks' = unfinish_tasks + 1
           /\ stack' = [stack EXCEPT ![t] = st]
           /\ pc' = AfterStep(t, st)
    /\ UNCHANGED <<wpc, writes>>
    /\ UNCHANGED curveVars
    /\ UNCHANGED <<dimVars, moreVars, plotVars>>

RECURSIVE CountAll(_, _, _)
CountAll(w, index, k) ==
    IF k = 0 THEN w
    ELSE CountAll(IF index + 1 \in DOMAIN w THEN [w EXCEPT ![index + 1] = @ + 1]
                  ELSE [j \in 1..(index + 1) |-> IF j \in DOMAIN w THEN w[j]
                                                 ELSE IF j = index + 1 THEN 1 ELSE 0],
                  index + 1, k - 1)

\* hilbertcurve.cpp:288-416: a region with n <= 2 and m <= 2 assigns its points
\* to coordinates_list[index..] and returns
WriteBase(t) ==
    /\ Running(t)
    /\ ~NeedsPartition(Top(t).qs)
    /\ m_curve' = WritePrimitive(m_curve, Top(t).qs, Top(t).index)
    /\ writes' = CountAll(writes, Top(t).index, Len(PrimitivePoints(Top(t).qs)))
    /\ LET st == Settle(Pop(stack[t]))
       IN  /\ stack' = [stack EXCEPT ![t] = st]
           /\ pc' = AfterStep(t, st)
    /\ UNCHANGED <<wpc, work_queue, unfinish_tasks, m_type, n, m, oABCD>>
    /\ UNCHANGED <<dimVars, moreVars, plotVars>>

\* hilbertcurve.cpp:812: while (isWorking())
DrainCheck ==
    /\ pc = "drain"
    /\ pc' = IF isWorking THEN "run_task" ELSE "done"
    /\ UNCHANGED poolVars
    /\ UNCHANGED curveVars
    /\ UNCHANGED <<dimVars, moreVars, plotVars>>

\* TakeTask with --unfinish_tasks moved in front of task(): the task is
\* counted as finished when it is taken from the queue
TakeTask_decrement(t) ==
    /\ work_queue # << >>
    /\ work_queue' = Tail(work_queue)
    /\ stack' = [stack EXCEPT ![t] = Settle(<<Frame(Head(work_queue).qs, Head(work_queue).index)>>)]
    /\ unfinish_tasks' = unfinish_tasks - 1
    /\ UNCHANGED writes
    /\ UNCHANGED curveVars
    /\ UNCHANGED <<dimVars, moreVars, plotVars>>

\* threads_utility.h:121-132 on thread t: the queue is not empty, take the
\* front task and start executing it
TakeTask(t) ==
    /\ work_queue # << >>
    /\ work_queue' = Tail(work_queue)
    /\ stack' = [stack EXCEPT ![t] = Settle(<<Frame(Head(work_queue).qs, Head(work_queue).index)>>)]
    /\ UNCHANGED <<unfinish_tasks, writes>>
    /\ UNCHANGED curveVars
    /\ UNCHANGED <<dimVars, moreVars, plotVars>>

\* FinishTask without --unfinish_tasks: a finished task stays counted
FinishTask_forget(t) ==
    /\ stack[t] = << >>
    /\ UNCHANGED <<unfinish_tasks, work_queue, stack, writes>>
    /\ UNCHANGED curveVars
    /\ UNCHANGED <<dimVars, moreVars, plotVars>>

\* threads_utility.h:133-135 on thread t: task() has returned, --unfinish_tasks
FinishTask(t) ==
    /\ stack[t] = << >>
    /\ unfinish_tasks' = unfinish_tasks - 1
    /\ UNCHANGED <<work_queue, stack, writes>>
    /\ UNCHANGED curveVars
    /\ UNCHANGED <<dimVars, moreVars, plotVars>>

\* hilbertcurve.cpp:814 run_task() called from the drain loop
CallerRunTask ==
    /\ pc = "run_task"
    /\ \/ TakeTask(0) /\ pc' = "task"
       \/ /\ work_queue = << >>
          /\ pc' = "drain"
          /\ UNCHANGED <<poolVars, curveVars, dimVars, moreVars, plotVars>>
    /\ UNCHANGED wpc

CallerFinishTask ==
    /\ pc = "task"
    /\ FinishTask(0)
    /\ pc' = "drain"
    /\ UNCHANGED wpc

\* threads_utility.h:157-163 worker_thread: run_task() in a loop; with an empty
\* queue run_task only yields
WorkerRunTask(t) ==
    /\ wpc[t] = "run_task"
    /\ TakeTask(t)
    /\ wpc' = [wpc EXCEPT ![t] = "task"]
    /\ UNCHANGED pc

WorkerFinishTask(t) ==
    /\ wpc[t] = "task"
    /\ FinishTask(t)
    /\ wpc' = [wpc EXCEPT ![t] = "run_task"]
    /\ UNCHANGED pc

NextPool ==
    \/ StartBuild
    \/ \E t \in Threads : PushChild(t)
    \/ \E t \in Threads : WriteBase(t)
    \/ DrainCheck
    \/ CallerRunTask
    \/ CallerFinishTask
    \/ \E t \in 1..NumWorkers : WorkerRunTask(t)
    \/ \E t \in 1..NumWorkers : WorkerFinishTask(t)

SpecPool == InitPool /\ [][NextPool]_vars

\* C3: whatever thread ran whichever sub-build in whatever order, the finished
\* H0 build holds the point sequence a single thread produces.
C3_Deterministic ==
    pc = "done" =>
        m_curve = BuildCurveH0([n |-> n, m |-> m, coord |-> HPoint(0, 0), oABCD |-> oABCD])

C3_Witness == pc = "done" /\ n = 5 /\ m = 2 /\ oABCD = "A" /\ Len(m_curve) = 10

\* C4: no index of the output is assigned twice and no index outside
\* 0..n*m-1 is assigned; when the build is complete every index was assigned
\* exactly once.
C4_DisjointWrites ==
    pc # "new" =>
        /\ DOMAIN writes = 1..(n * m)
        /\ \A k \in DOMAIN writes : writes[k] <= 1
        /\ pc = "done" => \A k \in DOMAIN writes : writes[k] = 1

C4_Witness == pc = "done" /\ n = 4 /\ m = 2 /\ \A k \in 1..8 : writes[k] = 1

\* C5: when the drain loop exits, no sub-build is queued or running and every
\* slot of the output was written.
C5_DrainComplete ==
    pc = "done" =>
        /\ work_queue = << >>
        /\ \A t \in Threads : stack[t] = << >>
        /\ \A t \in 1..NumWorkers : wpc[t] = "run_task"
        /\ \A k \in 1..(n * m) : writes[k] >= 1

C5_Witness == pc = "done" /\ n = 5 /\ m = 1 /\ work_queue = << >> /\ unfinish_tasks = 0

\* ------------------------------------------------------------ hfloat values
\* hilbertdefines.h:9  typedef double hfloat.  A value is the exact rational
\* n/d in lowest terms with d > 0; d = 0 encodes the IEEE specials: n = 0 is
\* NaN, n = 1 is +infinity, n = -1 is -infinity.  Arithmetic is exact: the
\* rounding of double operations is not represented, and -0.0 is 0.
F(k) == [n |-> k, d |-> 1]

NaN == [n |-> 0, d |-> 0]

isnan(a) == a.n = 0 /\ a.d = 0

Abs(k) == IF k < 0 THEN -k ELSE k

Sign(k) == IF k < 0 THEN -1 ELSE IF k > 0 THEN 1 ELSE 0

RECURSIVE GCD(_, _)
GCD(a, b) == IF b = 0 THEN a ELSE GCD(b, a % b)

Ratio(nn, dd) ==
    LET g == GCD(Abs(nn), dd)
    IN  [n |-> nn \div g, d |-> dd \div g]

\* a - b
FSub(a, b) ==
    IF isnan(a) \/ isnan(b) THEN NaN
    ELSE IF a.d = 0 THEN (IF b.d = 0 /\ b.n = a.n THEN NaN ELSE a)
    ELSE IF b.d = 0 THEN [n |-> -b.n, d |-> 0]
    ELSE Ratio(a.n * b.d - b.n * a.d, a.d * b.d)

\* a * b
FMul(a, b) ==
    IF isnan(a) \/ isnan(b) THEN NaN
    ELSE IF a.d = 0 \/ b.d = 0
         THEN (IF a.n = 0 \/ b.n = 0 THEN NaN ELSE [n |-> Sign(a.n) * Sign(b.n), d |-> 0])
    ELSE Ratio(a.n * b.n, a.d * b.d)

\* 1.0 / a
FInv(a) ==
    IF isnan(a) THEN NaN
    ELSE IF a.d = 0 THEN F(0)
    ELSE IF a.n = 0 THEN [n |-> 1, d |-> 0]
    ELSE IF a.n > 0 THEN [n |-> a.d, d |-> a.n]
    ELSE [n |-> -a.d, d |-> -a.n]

\* a + b
FAdd(a, b) ==
    IF isnan(a) \/ isnan(b) THEN NaN
    ELSE IF a.d = 0 THEN (IF b.d = 0 /\ b.n # a.n THEN NaN ELSE a)
    ELSE IF b.d = 0 THEN b
    ELSE Ratio(a.n * b.d + b.n * a.d, a.d * b.d)

\* a / b : 0/0 and inf/inf are NaN, x/0 is an infinity of the sign of x
FDiv(a, b) ==
    IF isnan(a) \/ isnan(b) THEN NaN
    ELSE IF b.d = 0 THEN (IF a.d = 0 THEN NaN ELSE F(0))
    ELSE IF a.d = 0 THEN [n |-> a.n * (IF b.n < 0 THEN -1 ELSE 1), d |-> 0]
    ELSE IF b.n = 0 THEN [n |-> Sign(a.n), d |-> 0]
    ELSE Ratio(a.n * b.d * Sign(b.n), a.d * Abs(b.n))

\* a < b : false when either side is NaN
FLess(a, b) ==
    /\ ~isnan(a)
    /\ ~isnan(b)
    /\ IF a.d = 0 /\ b.d = 0 THEN a.n < b.n
       ELSE IF a.d = 0 THEN a.n < 0
       ELSE IF b.d = 0 THEN b.n > 0
       ELSE a.n * b.d < b.n * a.d

\* a == b : false when either side is NaN
FEq(a, b) == ~isnan(a) /\ ~isnan(b) /\ a = b

\* datasequence.cpp:931-934  *std::max_element(begin(), end()) : the first
\* element no later element is greater than, by operator< on doubles
RECURSIVE max_element(_, _, _)
max_element(s, i, largest) ==
    IF i > Len(s) THEN largest
    ELSE max_element(s, i + 1, IF FLess(largest, s[i]) THEN s[i] ELSE largest)

max(s) == max_element(s, 2, s[1])

\* datasequence.cpp:938-941  *std::min_element(begin(), end())
RECURSIVE min_element(_, _, _)
min_element(s, i, smallest) ==
    IF i > Len(s) THEN smallest
    ELSE min_element(s, i + 1, IF FLess(s[i], smallest) THEN s[i] ELSE smallest)

min(s) == min_element(s, 2, s[1])

\* ------------------------------------------------- HilbertPlot::bestDimensions
\* std::floor(std::sqrt(lenght)) and hsize(sq): sqrt is correctly rounded, so
\* for a 32-bit lenght the truncation is the integer square root
FloorSqrt(len) == CHOOSE f \in 0..len : f * f <= len /\ (f + 1) * (f + 1) > len

\* std::ceil(std::sqrt(lenght))
CeilSqrt(len) == IF FloorSqrt(len) * FloorSqrt(len) = len
                    THEN FloorSqrt(len) ELSE FloorSqrt(len) + 1

\* bestDimensions without the inner test against min3: the rectangle is only
\* considered when the smaller square loses to the larger one
bestDimensions_square(len) ==
    LET f == FloorSqrt(len)
        c == CeilSqrt(len)
        min1 == Abs(len - f * f)
        min2 == Abs(len - c * c)
        min3 == Abs(len - f * c)
    IN  IF f * f = len THEN <<f, f>>
        ELSE IF min1 < min2 THEN <<f, f>>
        ELSE IF min2 < min3 THEN <<c, c>>
        ELSE <<c, f>>

\* hilbertplot.cpp:375-409  the pair (dim.first, dim.second).  lenght - c*c is
\* computed in 32-bit unsigned arithmetic and wraps; int(..) of the wrapped
\* value is the signed difference, whose std::abs is taken
bestDimensions(len) ==
    LET f == FloorSqrt(len)
        c == CeilSqrt(len)
        min1 == Abs(len - f * f)
        min2 == Abs(len - c * c)
        min3 == Abs(len - f * c)
    IN  IF f * f = len THEN <<f, f>>
        ELSE IF min1 < min2
             THEN (IF min1 < min3 THEN <<f, f>> ELSE <<c, f>>)
        ELSE IF min2 < min3 THEN <<c, c>>
        ELSE <<c, f>>

\* no curve object
NoCurve ==
    /\ m_type = 0
    /\ oABCD = "A"
    /\ n = 0
    /\ m = 0
    /\ m_curve = << >>

\* ------------------------------------------ bestDimensions calls (SpecBestDim)
\* A client calls the static function once with a length of its choice.
InitBestDim ==
    /\ pc = "new"
    /\ lenght \in 0..MaxLenght
    /\ dim = <<0, 0>>
    /\ NoCurve
    /\ PoolIdle
    /\ NoMore
    /\ m_data = << >>
    /\ m_min = F(0)
    /\ m_max = F(0)
    /\ m_plotToCurve = << >>
    /\ ret = "none"

CallBestDimensions ==
    /\ pc = "new"
    /\ pc' = "dims"
    /\ dim' = bestDimensions(lenght)
    /\ UNCHANGED <<lenght, curveVars, poolVars, plotVars, moreVars>>

NextBestDim == CallBestDimensions

SpecBestDim == InitBestDim /\ [][NextBestDim]_vars

\* C6: for every length L, bestDimensions(L) returns a pair (w,h) whose waste
\* |L - w*h| is no larger than the waste of each of the candidates (f,f),
\* (c,c), (c,f), f and c being the floor and the ceiling of sqrt(L); for a
\* perfect square L = r*r it returns (r,r).
C6_MinimalWaste ==
    pc = "dims" =>
        LET f == CHOOSE k \in 0..lenght : k * k <= lenght /\ \A j \in 0..lenght : j * j <= lenght => j <= k
            c == CHOOSE k \in 0..(lenght + 1) : k * k >= lenght /\ \A j \in 0..k : j * j >= lenght => j >= k
            Waste(w, h) == IF lenght >= w * h THEN lenght - w * h ELSE w * h - lenght
        IN  /\ \A cand \in {<<f, f>>, <<c, c>>, <<c, f>>} :
                Waste(dim[1], dim[2]) <= Waste(cand[1], cand[2])
            /\ \A r \in 0..lenght : r * r = lenght => dim = <<r, r>>

\* bestDimensions(24) has been computed: (5,5) wastes 1, (4,4) 8, (5,4) 4
C6_Witness == pc = "dims" /\ lenght = 24 /\ dim = <<5, 5>>

\* ------------------------------------------------------ the plot's curve
\* hpoint.cpp:452-460  operator>(p1, p2)
PointGreater(p1, p2) ==
    ~ (p1.y < p2.y \/ (p1.y = p2.y /\ p1.x < p2.x))

\* hpoint.cpp:469-472  operator<(p1, p2) is p2 > p1
PointLess(p1, p2) == PointGreater(p2, p1)

\* hpoint.cpp:345-348
indexCmp(p1, p2) == p1.index < p2.index

Range(s) == {s[i] : i \in DOMAIN s}

\* std::sort(m_curve.begin(), m_curve.end()) on pairwise different points:
\* position k holds the point that k - 1 other points precede
SortRaster(s) ==
    [k \in DOMAIN s |->
        CHOOSE p \in Range(s) :
            Cardinality({q \in Range(s) : q # p /\ PointLess(q, p)}) = k - 1]

\* std::sort(m_curve.begin(), m_curve.end(), indexCmp)
SortIndex(s) ==
    [k \in DOMAIN s |->
        CHOOSE p \in Range(s) :
            Cardinality({q \in Range(s) : indexCmp(q, p)}) = k - 1]

\* hilbertcurve.cpp:744-791  the eight neighbour tests of the scan, in the
\* order of the code: Right, Left, Up, Down, Right Up, Left Up, Right Down,
\* Left Down
Directions ==
    << <<1, 0>>, <<-1, 0>>, <<0, 1>>, <<0, -1>>, <<1, 1>>, <<-1, 1>>, <<1, -1>>, <<-1, -1>> >>

\* i < width - 1, i > 0, j < height - 1, j > 0 and their conjunctions
Present(w, h, i, j, d) ==
    /\ i + Directions[d][1] >= 0
    /\ i + Directions[d][1] < w
    /\ j + Directions[d][2] >= 0
    /\ j + Directions[d][2] < h

\* dif += std::fabs(p - m_curve[...].index) over the neighbours present, from
\* direction d on; s is m_curve in raster order
RECURSIVE Dif(_, _, _, _, _, _)
Dif(s, w, h, i, j, d) ==
    IF d > Len(Directions) THEN 0
    ELSE (IF Present(w, h, i, j, d)
          THEN Abs(s[j * w + i + 1].index
                   - s[(j + Directions[d][2]) * w + i + Directions[d][1] + 1].index)
          ELSE 0)
         + Dif(s, w, h, i, j, d + 1)

\* ++count for every neighbour present
Count(w, h, i, j) == Cardinality({d \in DOMAIN Directions : Present(w, h, i, j, d)})

\* hilbertcurve.cpp:792  val = dif / count of the cell at raster position pos
\* (0-based, pos = j * width + i)
CellDifference(s, w, h, pos) ==
    FDiv(F(Dif(s, w, h, pos % w, pos \div w, 1)), F(Count(w, h, pos % w, pos \div w)))

\* hilbertcurve.cpp:794-795  delta = val - mean; mean = mean + delta / ++k
RECURSIVE RunningMean(_, _, _)
RunningMean(vals, k, mean) ==
    IF k > Len(vals) THEN mean
    ELSE RunningMean(vals, k + 1, FAdd(mean, FDiv(FSub(vals[k], mean), F(k))))

\* hilbertcurve.cpp:726-798  the neighbour scan of BuildDifference over the
\* width x height raster positions of the sorted curve s: difference holds
\* the HPoint::difference of the points in the order of their index (the
\* order of m_curve after the final sort), m_mean_difference the running mean
DifferenceScan(s, w, h) ==
    LET vals == [k \in 1..(w * h) |-> CellDifference(s, w, h, k - 1)]
    IN  [difference |->
             [k \in DOMAIN vals |-> vals[CHOOSE pos \in DOMAIN vals : s[pos].index = k - 1]],
         m_mean_difference |-> RunningMean(vals, 1, F(0))]

\* BuildDifference without the second sort: the points stay in raster order
BuildDifference_raster(c) ==
    LET scanned ==
            {[s |-> s, scan |-> DifferenceScan(s, c.m, c.n)] :
                s \in {SortRaster([i \in DOMAIN c.m_curve |->
                                      [c.m_curve[i] EXCEPT !.index = i - 1]])}}
        r == CHOOSE r \in scanned : TRUE
    IN  [n |-> c.n, m |-> c.m, coord |-> c.coord, oABCD |-> c.oABCD, m_type |-> c.m_type,
         m_curve |-> r.s,
         difference |-> r.scan.difference,
         m_mean_difference |-> r.scan.m_mean_difference]

\* hilbertcurve.cpp:709-800  v.index = ind++ over the traversal, the sort into
\* raster order, the neighbour scan, and the sort back by index.  The HPoint
\* record carries x, y and index; the difference values of the points are the
\* field difference of the result, in the order of m_curve.
BuildDifference(c) ==
    LET scanned ==
            {[s |-> s, scan |-> DifferenceScan(s, c.m, c.n)] :
                s \in {SortRaster([i \in DOMAIN c.m_curve |->
                                      [c.m_curve[i] EXCEPT !.index = i - 1]])}}
        r == CHOOSE r \in scanned : TRUE
    IN  [n |-> c.n, m |-> c.m, coord |-> c.coord, oABCD |-> c.oABCD, m_type |-> c.m_type,
         m_curve |-> SortIndex(r.s),
         difference |-> r.scan.difference,
         m_mean_difference |-> r.scan.m_mean_difference]

\* hilbertcurve.cpp:3353-3364  HilbertCurve(width, height, type, coord,
\* orientation, true): Build(), BuildDifference(), reflectY()
HilbertCurveDifference(width, height, type, origen, orientation) ==
    reflectY(BuildDifference(HilbertCurve(width, height, type, origen, orientation)))

\* constructCurve with "width == 0 && height == 0": the best dimensions are
\* only computed when both are missing
constructCurve_both(len, width, height, type) ==
    LET d == IF width = 0 /\ height = 0 THEN bestDimensions(len) ELSE <<width, height>>
    IN  [width |-> d[1], height |-> d[2],
         curve |-> HilbertCurveDifference(d[1], d[2], type, HPoint(0, 0), "A")]

\* hilbertplot.cpp:413-423  width and height are in-out reference parameters
constructCurve(len, width, height, type) ==
    LET d == IF width = 0 \/ height = 0 THEN bestDimensions(len) ELSE <<width, height>>
    IN  [width |-> d[1], height |-> d[2],
         curve |-> HilbertCurveDifference(d[1], d[2], type, HPoint(0, 0), "A")]

\* Resize without the pop_back loop
Resize_pad(data, size) ==
    IF Len(data) < size
    THEN data \o [i \in 1..(size - Len(data)) |-> F(0)]
    ELSE data

\* hilbertplot.cpp:50-57  push_back(0) while shorter than width * height,
\* pop_back() while longer
Resize(data, size) ==
    IF Len(data) < size
    THEN data \o [i \in 1..(size - Len(data)) |-> F(0)]
    ELSE SubSeq(data, 1, size)

\* the lookup table filled with the coordinates exchanged:
\* m_plotToCurve[point->Y()][point->X()] = point->index
RECURSIVE FillLookup_transposed(_, _, _)
FillLookup_transposed(tbl, curve, i) ==
    IF i > Len(curve) THEN tbl
    ELSE LET p == curve[i]
         IN  FillLookup_transposed(
                 IF p.y + 1 \in DOMAIN tbl /\ p.x + 1 \in DOMAIN tbl[p.y + 1]
                 THEN [tbl EXCEPT ![p.y + 1][p.x + 1] = p.index]
                 ELSE tbl,
                 curve, i + 1)

\* hilbertplot.cpp:58-62  m_plotToCurve[point->X()][point->Y()] = point->index
\* for the points of the curve in order, on a width x height table of zeros
RECURSIVE FillLookup(_, _, _)
FillLookup(tbl, curve, i) ==
    IF i > Len(curve) THEN tbl
    ELSE LET p == curve[i]
         IN  FillLookup(IF p.x + 1 \in DOMAIN tbl /\ p.y + 1 \in DOMAIN tbl[p.x + 1]
                        THEN [tbl EXCEPT ![p.x + 1][p.y + 1] = p.index]
                        ELSE tbl,
                        curve, i + 1)

\* ------------------------------------------------------ HilbertPlot (SpecPlot)
\* the values a client stores: two different ones, so that min # max occurs,
\* neither of them 0, so that data whose minimum is not 0 occurs (a padded
\* slot still holds 0)
DataValues == {F(1), F(2)}

\* The value replaceValueAt writes: one value keeps the padded slots of a
\* plot, which start at 0, from multiplying the states of the larger plots
ReplaceValues == {F(2)}

DataInputs == UNION {[1..k -> DataValues] : k \in 0..MaxDataLen}

ReplaceInputs == UNION {[1..k -> DataValues] : k \in 0..MaxReplaceLen}

Returned(v) == [raised |-> "none", value |-> v]

Thrown(e) == [raised |-> e, value |-> F(0)]

\* hilbertcurve.h  width() is m, height() is n
width == m

height == n

\* valueAt with ">" for ">=": index == size reaches m_data.at(index), which
\* throws std::out_of_range
valueAt_off(index) ==
    IF index > Len(m_data) THEN Thrown("HilbertIndexOutOfRange")
    ELSE IF index = Len(m_data) THEN Thrown("std::out_of_range")
    ELSE Returned(m_data[index + 1])

\* hilbertplot.cpp:123-128
valueAt(index) ==
    IF index >= Len(m_data) THEN Thrown("HilbertIndexOutOfRange")
    ELSE Returned(m_data[index + 1])

\* hilbertplot.cpp:134-142
valueAtXY(x, y) ==
    IF x >= width \/ y >= height THEN Thrown("HilbertIndexOutOfRange")
    ELSE valueAt(m_plotToCurve[x + 1][y + 1])

\* hilbertplot.cpp:144-149
valueNormalizedAt(index) ==
    IF index >= Len(m_data) THEN Thrown("HilbertIndexOutOfRange")
    ELSE Returned(FMul(FSub(m_data[index + 1], m_min),
                       IF FEq(m_min, m_max) THEN F(0) ELSE FInv(FSub(m_max, m_min))))

\* hilbertplot.cpp:151-157
valueNormalizedAtXY(x, y) ==
    IF x >= width \/ y >= height THEN Thrown("HilbertIndexOutOfRange")
    ELSE valueNormalizedAt(m_plotToCurve[x + 1][y + 1])

\* hilbertplot.cpp:178-183
indexOf(x, y) ==
    IF x >= width \/ y >= height THEN [raised |-> "HilbertIndexOutOfRange", index |-> 0]
    ELSE [raised |-> "none", index |-> m_plotToCurve[x + 1][y + 1]]

\* hpoint.cpp:338-341  HPoint::DifferenceValue() of the point at position k of m_curve
DifferenceValue(k) == difference[k]

\* hilbertcurve.cpp:3380-3383
meanDifference == m_mean_difference

\* hilbertplot.cpp:203-210, 214-218  the value generateImage writes for the
\* point at position k of the curve
generateImage_value(k, threshold, minmax) ==
    LET point == m_curve[k]
        v == valueAtXY(point.x, point.y).value
    IN  IF FLess(F(0), threshold)
        THEN IF FLess(threshold, FDiv(DifferenceValue(k), meanDifference))
             THEN F(2)
             ELSE FMul(FSub(v, m_min), minmax)
        ELSE FMul(v, minmax)

\* the loop over the points of the curve: image[point->X()][point->Y()] = value
RECURSIVE generateImage_loop(_, _, _, _)
generateImage_loop(image, k, threshold, minmax) ==
    IF k > Len(m_curve) THEN image
    ELSE generateImage_loop(
             [image EXCEPT ![m_curve[k].x + 1][m_curve[k].y + 1] =
                               generateImage_value(k, threshold, minmax)],
             k + 1, threshold, minmax)

\* hilbertplot.cpp:197-220  image[x + 1][y + 1] is the cell (x, y)
generateImage(threshold) ==
    generateImage_loop([x \in 1..width |-> [y \in 1..height |-> F(0)]], 1, threshold,
                       IF FEq(m_max, m_min) THEN F(0) ELSE FInv(FSub(m_max, m_min)))

\* hilbertplot.cpp:225-228
dataCopy == m_data

\* The arguments of the constructor call: data in m_data, width in m, height
\* in n, type in m_type.
InitPlot ==
    /\ pc = "new"
    /\ m_type \in PlotFamilies
    /\ oABCD = "A"
    /\ m \in 0..MaxPlotDim
    /\ n \in 0..MaxPlotDim
    /\ m_curve = << >>
    /\ m_data \in DataInputs
    /\ m_min = F(0)
    /\ m_max = F(0)
    /\ m_plotToCurve = << >>
    /\ ret = "none"
    /\ lenght = 0
    /\ dim = <<0, 0>>
    /\ PoolIdle
    /\ NoMore

\* hilbertplot.cpp:46-73  HilbertPlot(data, width, height, type)
HilbertPlot ==
    /\ pc = "new"
    /\ LET cc == constructCurve(Len(m_data), m, n, m_type)
           data == Resize(m_data, cc.width * cc.height)
       IN  /\ m' = cc.width
           /\ n' = cc.height
           /\ m_curve' = cc.curve.m_curve
           /\ m_data' = data
           /\ m_plotToCurve' =
                  FillLookup([x \in 1..cc.width |-> [y \in 1..cc.height |-> 0]],
                             cc.curve.m_curve, 1)
           /\ m_min' = IF Len(data) > 0 THEN min(data) ELSE F(0)
           /\ m_max' = IF Len(data) > 0 THEN max(data) ELSE F(0)
           /\ difference' = cc.curve.difference
           /\ m_mean_difference' = cc.curve.m_mean_difference
    /\ pc' = "ready"
    /\ ret' = "none"
    /\ UNCHANGED <<m_type, oABCD, poolVars, dimVars, coord, partition_vec, restVars>>

\* hilbertplot.cpp:159-166
replaceValueAt(index, value) ==
    /\ pc = "ready"
    /\ IF index >= Len(m_data)
       THEN /\ ret' = "HilbertIndexOutOfRange"
            /\ UNCHANGED <<m_data, m_max, m_min>>
       ELSE /\ m_data' = [m_data EXCEPT ![index + 1] = value]
            /\ m_max' = max(m_data')
            /\ m_min' = min(m_data')
            /\ ret' = "none"
    /\ UNCHANGED <<pc, curveVars, poolVars, dimVars, moreVars, m_plotToCurve>>

\* hilbertplot.cpp:168-174
replaceValueAtXY(x, y, value) ==
    IF x >= width \/ y >= height
    THEN /\ pc = "ready"
         /\ ret' = "HilbertIndexOutOfRange"
         /\ UNCHANGED <<m_data, m_max, m_min>>
         /\ UNCHANGED <<pc, curveVars, poolVars, dimVars, moreVars, m_plotToCurve>>
    ELSE pc = "ready" /\ replaceValueAt(m_plotToCurve[x + 1][y + 1], value)

\* replaceData with m_data.clear() moved in front of the size test: a refused
\* call has already emptied the plot's data
replaceData_clear(data) ==
    /\ pc = "ready"
    /\ IF Len(m_data) # Len(data)
       THEN /\ ret' = "HilbertBadSize"
            /\ m_data' = << >>
            /\ UNCHANGED pc
       ELSE IF data = << >>
       THEN \/ /\ pc' = "fault"
               /\ UNCHANGED <<m_data, ret>>
            \/ /\ m_data' = << >>
               /\ ret' = "none"
               /\ UNCHANGED pc
       ELSE LET max_ == max(data)
                min_ == min(data)
                minmax == FInv(FSub(max_, min_))
            IN  /\ m_data' = [i \in DOMAIN data |-> FMul(FSub(data[i], min_), minmax)]
                /\ ret' = "none"
                /\ UNCHANGED pc
    /\ UNCHANGED <<m_min, m_max, m_plotToCurve, curveVars, poolVars, dimVars, moreVars>>

\* hilbertplot.cpp:233-249.  With equal sizes and empty data, data.max()
\* dereferences end() of an empty vector: the call either faults or goes on
\* with indeterminate max and min, which the empty loop never reads.
replaceData(data) ==
    /\ pc = "ready"
    /\ IF Len(m_data) # Len(data)
       THEN /\ ret' = "HilbertBadSize"
            /\ UNCHANGED <<pc, m_data>>
       ELSE IF data = << >>
       THEN \/ /\ pc' = "fault"
               /\ UNCHANGED <<m_data, ret>>
            \/ /\ m_data' = << >>
               /\ ret' = "none"
               /\ UNCHANGED pc
       ELSE LET max_ == max(data)
                min_ == min(data)
                minmax == FInv(FSub(max_, min_))
            IN  /\ m_data' = [i \in DOMAIN data |-> FMul(FSub(data[i], min_), minmax)]
                /\ ret' = "none"
                /\ UNCHANGED pc
    /\ UNCHANGED <<m_min, m_max, m_plotToCurve, curveVars, poolVars, dimVars, moreVars>>

NextPlot ==
    \/ HilbertPlot
    \/ \E index \in 0..(Len(m_data) + 1), value \in ReplaceValues : replaceValueAt(index, value)
    \/ \E x \in 0..width, y \in 0..height, value \in ReplaceValues : replaceValueAtXY(x, y, value)
    \/ \E data \in ReplaceInputs : replaceData(data)

SpecPlot == InitPlot /\ [][NextPlot]_vars

\* C7: in every state of a constructed plot, whatever the data length and the
\* requested width and height were and whatever replaceValueAt and replaceData
\* calls followed, the stored values have length exactly width * height.
C7_LengthInvariant == pc = "ready" => Len(m_data) = width * height

\* a 2 x 2 plot after a successful replaceData: the stored values are
\* normalized ones while min and max are those of the earlier data
C7_Witness ==
    /\ pc = "ready"
    /\ ret = "none"
    /\ width = 2
    /\ height = 2
    /\ m_data = <<F(0), F(1), F(1), F(0)>>
    /\ m_min = F(1)
    /\ m_max = F(2)

\* C8: a constructor call with width = 0 or height = 0 on data of length L
\* selects (width, height) = bestDimensions(L); right after it valueAt(i) is
\* the i-th input value for i < min(L, width*height) and 0 for every padded
\* slot L <= i < width*height.
C8_BestDimensionsAndPadding ==
    [][(pc = "new" /\ pc' = "ready" /\ (m = 0 \/ n = 0)) =>
          /\ <<width', height'>> = bestDimensions(Len(m_data))
          /\ \A i \in 0..(width' * height' - 1) :
                valueAt(i)' = Returned(IF i < Len(m_data) THEN m_data[i + 1] ELSE F(0))]_vars

\* five values 2,1,2,2,2 constructed with no dimensions: 3 x 2, one padded slot
C8_Witness ==
    /\ pc = "ready"
    /\ ret = "none"
    /\ width = 3
    /\ height = 2
    /\ m_data = <<F(2), F(1), F(2), F(2), F(2), F(0)>>
    /\ m_min = F(0)
    /\ m_max = F(2)

\* C9: valueAt, valueNormalizedAt, replaceValueAt and indexOf raise
\* HilbertIndexOutOfRange exactly when index >= width*height, or x >= width,
\* or y >= height; a raising call leaves values, min and max unchanged.
\* For replaceValueAt the second conjunct says of every step and every
\* argument: the step shows the outcome the claim gives for that argument, or
\* it is not a step of that call.
C9_OutOfRange ==
    /\ [](pc = "ready" =>
            /\ \A index \in 0..(width * height + 1) :
                  LET out == index >= width * height
                      r1 == valueAt(index).raised
                      r2 == valueNormalizedAt(index).raised
                  IN  /\ r1 = (IF out THEN "HilbertIndexOutOfRange" ELSE "none")
                      /\ r2 = (IF out THEN "HilbertIndexOutOfRange" ELSE "none")
            /\ \A x \in 0..(width + 1), y \in 0..(height + 1) :
                  LET out == x >= width \/ y >= height
                      r1 == valueAtXY(x, y).raised
                      r2 == valueNormalizedAtXY(x, y).raised
                      r3 == indexOf(x, y).raised
                  IN  /\ r1 = (IF out THEN "HilbertIndexOutOfRange" ELSE "none")
                      /\ r2 = (IF out THEN "HilbertIndexOutOfRange" ELSE "none")
                      /\ r3 = (IF out THEN "HilbertIndexOutOfRange" ELSE "none"))
    /\ [][(pc = "ready" /\ ret' # "HilbertBadSize") =>
            /\ \A index \in 0..(Len(m_data) + 1), value \in ReplaceValues :
                  \/ IF index >= width * height
                     THEN /\ ret' = "HilbertIndexOutOfRange"
                          /\ UNCHANGED <<m_data, m_min, m_max>>
                     ELSE ret' = "none"
                  \/ ~ replaceValueAt(index, value)
            /\ \A x \in 0..width, y \in 0..height, value \in ReplaceValues :
                  \/ IF x >= width \/ y >= height
                     THEN /\ ret' = "HilbertIndexOutOfRange"
                          /\ UNCHANGED <<m_data, m_min, m_max>>
                     ELSE ret' = "none"
                  \/ ~ replaceValueAtXY(x, y, value)]_vars

\* a replaceValueAt call on a 2 x 2 plot has raised HilbertIndexOutOfRange
C9_Witness ==
    /\ pc = "ready"
    /\ ret = "HilbertIndexOutOfRange"
    /\ width = 2
    /\ height = 2
    /\ m_max = F(2)
    /\ m_min = F(0)

\* C10: after any sequence of successful replaceValueAt and replaceData calls,
\* valueNormalizedAt(i) for every valid index i lies in [0,1], is 0 when the
\* minimum and the maximum of the stored values are equal, and otherwise is
\* (v_i - min)/(max - min) for the minimum and maximum of the stored values.
C10_NormalizedLive ==
    pc = "ready" =>
        \A i \in 0..(Len(m_data) - 1) :
            LET v == valueNormalizedAt(i).value
                lo == CHOOSE a \in Range(m_data) : \A b \in Range(m_data) : ~ FLess(b, a)
                hi == CHOOSE a \in Range(m_data) : \A b \in Range(m_data) : ~ FLess(a, b)
            IN  /\ valueNormalizedAt(i).raised = "none"
                /\ ~ isnan(v)
                /\ ~ FLess(v, F(0))
                /\ ~ FLess(F(1), v)
                /\ \A a \in Range(m_data) : ~ isnan(a)
                /\ IF lo = hi THEN v = F(0)
                   ELSE v = Ratio((m_data[i + 1].n * lo.d - lo.n * m_data[i + 1].d) * hi.d * lo.d,
                                  (hi.n * lo.d - lo.n * hi.d) * m_data[i + 1].d * lo.d)

\* C11: replaceData with a sequence whose length differs from the length of
\* the plot's data raises HilbertBadSize and mutates nothing: values, min, max
\* and the coordinate lookup are as before the call.  A step that does not
\* show that outcome is not a step of replaceData with an argument of another
\* length.
C11_BadSizeNoMutation ==
    [][(/\ pc = "ready"
        /\ ~ (/\ ret' = "HilbertBadSize"
              /\ UNCHANGED <<m_data, m_min, m_max, m_plotToCurve>>)) =>
          \A data \in ReplaceInputs :
              \/ Len(data) = Len(m_data)
              \/ ~ replaceData(data)]_vars

\* replaceData has refused a sequence on a 2 x 2 plot holding 2,1,2,0
C11_Witness ==
    /\ pc = "ready"
    /\ ret = "HilbertBadSize"
    /\ width = 2
    /\ height = 2
    /\ m_data = <<F(2), F(1), F(2), F(0)>>
    /\ m_min = F(0)
    /\ m_max = F(2)

\* C12: after a successful replaceData(d), d as long as the plot's data, the
\* plot's data is d: dataCopy() equals d element for element and
\* valueAt(i) = d[i] for every i.
C12_DataReplaced ==
    [][pc = "ready" =>
          \A data \in ReplaceInputs :
              \/ Len(data) # Len(m_data)
              \/ /\ dataCopy' = data
                 /\ \A i \in 0..(Len(data) - 1) : valueAt(i)' = Returned(data[i + 1])
              \/ ~ replaceData(data)]_vars

\* C13: generateImage with threshold 0 returns a width x height matrix whose
\* cell (x, y) is the min/max-normalized value of the cell: it equals
\* valueNormalizedAt(x, y) and lies in [0,1], whatever the stored data, data
\* whose minimum is not 0 included.
C13_ImageNormalized ==
    pc = "ready" =>
        LET image == generateImage(F(0))
        IN  /\ Len(image) = width
            /\ \A x \in 0..(width - 1) :
                  /\ Len(image[x + 1]) = height
                  /\ \A y \in 0..(height - 1) :
                        /\ image[x + 1][y + 1] = valueNormalizedAtXY(x, y).value
                        /\ ~ FLess(image[x + 1][y + 1], F(0))
                        /\ ~ FLess(F(1), image[x + 1][y + 1])
                        /\ ~ isnan(image[x + 1][y + 1])

\* the points of the curve other than k within one step of it in x and in y
Neighbours8(k) ==
    {q \in DOMAIN m_curve :
        /\ q # k
        /\ Abs(m_curve[q].x - m_curve[k].x) <= 1
        /\ Abs(m_curve[q].y - m_curve[k].y) <= 1}

RECURSIVE IndexDistance(_, _)
IndexDistance(k, qs) ==
    IF qs = {} THEN 0
    ELSE LET q == CHOOSE q \in qs : TRUE
         IN  Abs(m_curve[k].index - m_curve[q].index) + IndexDistance(k, qs \ {q})

\* C15: in a curve built with the discontinuity pass, of width and height at
\* least 1, the score of every cell is the sum of the absolute index
\* differences to its 8-connected neighbours that exist, divided by their
\* number, which is positive; and the mean discontinuity is a defined number,
\* at least 0.
C15_DifferenceDefined ==
    (pc = "ready" /\ width >= 1 /\ height >= 1) =>
        /\ \A k \in DOMAIN m_curve :
              /\ Cardinality(Neighbours8(k)) > 0
              /\ DifferenceValue(k) =
                     Ratio(IndexDistance(k, Neighbours8(k)), Cardinality(Neighbours8(k)))
        /\ ~ isnan(meanDifference)
        /\ ~ FLess(meanDifference, F(0))

\* ---------------------------------- reversing and mirroring (SpecTransform)
\* A client constructs a curve of some family, orientation, size and origin
\* and then calls reverse, reflect, reflectAndReverse, reflectX and reflectY
\* on it in any order.
TransformOrigins == {HPoint(0, 0), HPoint(1, 2)}

\* the HilbertCurve object the curve variables hold
ThisCurve ==
    [n |-> n, m |-> m, coord |-> coord, oABCD |-> oABCD, m_type |-> m_type,
     m_curve |-> m_curve]

InitTransform ==
    /\ pc = "new"
    /\ m_type \in CurveType
    /\ oABCD \in Orientation
    /\ n \in 1..MaxTransformDim
    /\ m \in 1..MaxTransformDim
    /\ coord \in TransformOrigins
    /\ m_curve = << >>
    /\ difference = << >>
    /\ m_mean_difference = F(0)
    /\ partition_vec = << >>
    /\ NoRest
    /\ PoolIdle
    /\ NoPlot

\* hilbertcurve.cpp:3353-3364  HilbertCurve(width, height, type, coord, orientation)
ConstructAt ==
    /\ pc = "new"
    /\ pc' = "built"
    /\ m_curve' = HilbertCurve(m, n, m_type, coord, oABCD).m_curve
    /\ UNCHANGED <<m_type, n, m, oABCD, poolVars, dimVars, moreVars, plotVars>>

\* hilbertcurve.cpp:3495-3498
CallReverse ==
    /\ pc = "built"
    /\ m_curve' = reverse(ThisCurve).m_curve
    /\ UNCHANGED <<pc, m_type, n, m, oABCD, poolVars, dimVars, moreVars, plotVars>>

\* hilbertcurve.cpp:3507-3516
CallReflect ==
    /\ pc = "built"
    /\ m_curve' = reflect(ThisCurve).m_curve
    /\ UNCHANGED <<pc, m_type, n, m, oABCD, poolVars, dimVars, moreVars, plotVars>>

\* hilbertcurve.cpp:3486-3490
CallReflectAndReverse ==
    /\ pc = "built"
    /\ m_curve' = reflectAndReverse(ThisCurve).m_curve
    /\ UNCHANGED <<pc, m_type, n, m, oABCD, poolVars, dimVars, moreVars, plotVars>>

\* hilbertcurve.cpp:3389-3401
CallReflectX ==
    /\ pc = "built"
    /\ m_curve' = reflectX(ThisCurve).m_curve
    /\ UNCHANGED <<pc, m_type, n, m, oABCD, poolVars, dimVars, moreVars, plotVars>>

\* hilbertcurve.cpp:3406-3417
CallReflectY ==
    /\ pc = "built"
    /\ m_curve' = reflectY(ThisCurve).m_curve
    /\ UNCHANGED <<pc, m_type, n, m, oABCD, poolVars, dimVars, moreVars, plotVars>>

NextTransform ==
    \/ ConstructAt
    \/ CallReverse
    \/ CallReflect
    \/ CallReflectAndReverse
    \/ CallReflectX
    \/ CallReflectY

SpecTransform == InitTransform /\ [][NextTransform]_vars

\* the cells of the region of the curve: width x height from its origin
Region == {<<coord.x + c[1], coord.y + c[2]>> : c \in Cells(m, n)}

\* the cells the points of a point sequence lie on
CellsOf(s) == {<<s[i].x, s[i].y>> : i \in DOMAIN s}

\* C14: on a built curve, whatever was applied to it before, reverse applied
\* twice and reflect applied twice give back the point sequence, the same
\* coordinates in the same order; reverse only changes the order of the
\* points; reflect changes one coordinate of each point, the same one for
\* all, and maps the region of the curve onto itself.
C14_Involutions ==
    pc = "built" =>
        LET c == ThisCurve
            rev == reverse(c).m_curve
            ref == reflect(c).m_curve
        IN  /\ reverse(reverse(c)) = c
            /\ reflect(reflect(c)) = c
            /\ Len(rev) = Len(m_curve)
            /\ \A i \in DOMAIN m_curve : rev[i] = m_curve[Len(m_curve) + 1 - i]
            /\ Len(ref) = Len(m_curve)
            /\ \/ \A i \in DOMAIN m_curve : ref[i] = [m_curve[i] EXCEPT !.x = ref[i].x]
               \/ \A i \in DOMAIN m_curve : ref[i] = [m_curve[i] EXCEPT !.y = ref[i].y]
            /\ CellsOf(m_curve) = Region
            /\ CellsOf(ref) = Region

\* the 3 x 2 curve of family H6 at origin (1,2), reflected and then reversed
C14_Witness ==
    /\ pc = "built"
    /\ m_type = 6
    /\ oABCD = "A"
    /\ m = 3
    /\ n = 2
    /\ coord = HPoint(1, 2)
    /\ m_curve = reflectAndReverse(HilbertCurve(3, 2, 6, HPoint(1, 2), "A")).m_curve
    /\ m_curve # HilbertCurve(3, 2, 6, HPoint(1, 2), "A").m_curve

\* the threads between taking a task from the queue and --unfinish_tasks
Executing ==
    {t \in 1..NumWorkers : wpc[t] = "task"} \cup (IF pc = "task" THEN {0} ELSE {})

C17_LeastDataLoss ==
    pc = "dims" =>
        LET f == CHOOSE k \in 0..lenght : k * k <= lenght /\ (k + 1) * (k + 1) > lenght
            c == CHOOSE k \in 0..(lenght + 1) : k * k >= lenght /\ (k = 0 \/ (k - 1) * (k - 1) < lenght)
            Loss(w, h) == IF lenght > w * h THEN lenght - w * h ELSE 0
        IN  \A cand \in {<<f, f>>, <<c, c>>, <<c, f>>} :
                Loss(dim[1], dim[2]) <= Loss(cand[1], cand[2])

\* ------------------------------------------- Partition calls (SpecPartition)
\* A client calls Partition once on a region of its choice, with a vector that
\* is empty, as in BuildCurve, or already holds a region.
InitPartition ==
    /\ pc = "new"
    /\ n \in 0..MaxPartitionDim
    /\ m \in 0..MaxPartitionDim
    /\ oABCD \in Orientation
    /\ coord \in TransformOrigins
    /\ partition_vec \in {<< >>, <<QuasiSquare(1, 1, HPoint(0, 0), "A")>>}
    /\ m_type = 0
    /\ m_curve = << >>
    /\ difference = << >>
    /\ m_mean_difference = F(0)
    /\ NoRest
    /\ PoolIdle
    /\ NoPlot

\* hilbertcurve.cpp:81-225  four push_back calls on the vector passed in
CallPartition ==
    /\ pc = "new"
    /\ pc' = "partitioned"
    /\ partition_vec' = partition_vec \o Partition(QuasiSquare(n, m, coord, oABCD))
    /\ UNCHANGED <<curveVars, poolVars, dimVars, plotVars, coord, difference,
                   m_mean_difference, restVars>>

NextPartition == CallPartition

SpecPartition == InitPartition /\ [][NextPartition]_vars

\* the cells of a region
CellsOfRegion(qs) ==
    {<<qs.coord.x + c[1], qs.coord.y + c[2]>> : c \in Cells(qs.m, qs.n)}

\* size and place of a region, its orientation left out
Placed(nn, mm, xx, yy) == [n |-> nn, m |-> mm, x |-> xx, y |-> yy]

PlaceOf(qs) == Placed(qs.n, qs.m, qs.coord.x, qs.coord.y)

\* C18: for every region (n, m, origin, orientation) with n, m >= 0,
\* Partition emits exactly four children, of sizes n1 x m1, n1 x m2, n2 x m1
\* and n2 x m2 with n1 + n2 = n and m1 + m2 = m, placed at origin,
\* origin + (m1, 0), origin + (0, n1) and origin + (m1, n1); they do not
\* overlap pairwise, their union is the parent rectangle and their areas sum
\* to n * m.
C18_PartitionTiles ==
    [][pc = "new" /\ pc' = "partitioned" =>
          /\ Len(partition_vec') = Len(partition_vec) + 4
          /\ SubSeq(partition_vec', 1, Len(partition_vec)) = partition_vec
          /\ LET ch == [k \in 1..4 |-> partition_vec'[Len(partition_vec) + k]]
             IN  /\ \E n1 \in 0..n, m1 \in 0..m :
                       LET n2 == n - n1
                           m2 == m - m1
                           expected == <<Placed(n1, m1, coord.x, coord.y),
                                         Placed(n1, m2, coord.x + m1, coord.y),
                                         Placed(n2, m1, coord.x, coord.y + n1),
                                         Placed(n2, m2, coord.x + m1, coord.y + n1)>>
                       IN  \E f \in [1..4 -> 1..4] :
                               /\ \A i, j \in 1..4 : f[i] = f[j] => i = j
                               /\ \A k \in 1..4 : PlaceOf(ch[k]) = expected[f[k]]
                 /\ \A k \in 1..4 : ch[k].oABCD \in Orientation
                 /\ \A i, j \in 1..4 :
                       i # j => CellsOfRegion(ch[i]) \cap CellsOfRegion(ch[j]) = {}
                 /\ UNION {CellsOfRegion(ch[k]) : k \in 1..4}
                       = CellsOfRegion(QuasiSquare(n, m, coord, oABCD))
                 /\ ch[1].n * ch[1].m + ch[2].n * ch[2].m + ch[3].n * ch[3].m
                       + ch[4].n * ch[4].m = n * m]_vars

\* the 5 x 3 region (n = 5, m = 3) of orientation C at (1,2) has been
\* partitioned into an empty vector: n1 = 3, n2 = 2, m1 = 1, m2 = 2
C18_Witness ==
    /\ pc = "partitioned"
    /\ n = 5
    /\ m = 3
    /\ oABCD = "C"
    /\ coord = HPoint(1, 2)
    /\ partition_vec = <<QuasiSquare(2, 1, HPoint(1, 5), "B"),
                         QuasiSquare(3, 1, HPoint(1, 2), "C"),
                         QuasiSquare(3, 2, HPoint(2, 2), "C"),
                         QuasiSquare(2, 2, HPoint(2, 5), "D")>>

\* C19: Partition starts from n1 = floor(n/2), n2 = n - n1, m1 = floor(m/2),
\* m2 = m - m1 and corrects the parity: for orientation A or B it swaps n1
\* with n2 exactly when n1 is odd, and m1 with m2 exactly when m1 is odd; for
\* C or D it swaps exactly when n2, respectively m2, is odd.  The children
\* have the sizes and places these corrected halves give.  Hence n1 and m1
\* are even for A and B, and n2 and m2 are even for C and D, unless both
\* halves of the dimension are odd.
C19_ParityCorrection ==
    [][pc = "new" /\ pc' = "partitioned" =>
          LET AB == oABCD \in {"A", "B"}
              Odd(k) == k % 2 = 1
              n1e == n \div 2
              n2e == n - n1e
              m1e == m \div 2
              m2e == m - m1e
              n1 == IF Odd(IF AB THEN n1e ELSE n2e) THEN n2e ELSE n1e
              n2 == IF Odd(IF AB THEN n1e ELSE n2e) THEN n1e ELSE n2e
              m1 == IF Odd(IF AB THEN m1e ELSE m2e) THEN m2e ELSE m1e
              m2 == IF Odd(IF AB THEN m1e ELSE m2e) THEN m1e ELSE m2e
              ch == [k \in 1..4 |-> partition_vec'[Len(partition_vec) + k]]
          IN  /\ {PlaceOf(ch[k]) : k \in 1..4}
                    = {Placed(n1, m1, coord.x, coord.y),
                       Placed(n1, m2, coord.x + m1, coord.y),
                       Placed(n2, m1, coord.x, coord.y + n1),
                       Placed(n2, m2, coord.x + m1, coord.y + n1)}
              /\ AB => /\ ~ Odd(n1) \/ (Odd(n1) /\ Odd(n2))
                       /\ ~ Odd(m1) \/ (Odd(m1) /\ Odd(m2))
              /\ ~ AB => /\ ~ Odd(n2) \/ (Odd(n1) /\ Odd(n2))
                         /\ ~ Odd(m2) \/ (Odd(m1) /\ Odd(m2))]_vars

\* the 5 x 6 region (n = 5, m = 6) of orientation A at the origin has been
\* partitioned: floor(5/2) = 2 is even and stays n1, floor(6/2) = 3 is odd and
\* is swapped with the other odd half
C19_Witness ==
    /\ pc = "partitioned"
    /\ n = 5
    /\ m = 6
    /\ oABCD = "A"
    /\ coord = HPoint(0, 0)
    /\ Len(partition_vec) = 4
    /\ PlaceOf(partition_vec[4]) = Placed(2, 3, 0, 0)
    /\ PlaceOf(partition_vec[2]) = Placed(3, 3, 3, 2)

\* ------------------------------------- builds that are scheduled (SpecPoolFair)
\* The build of SpecPool, regions with n = 0 or m = 0 included, on threads
\* the scheduler keeps running: the caller is the thread that called the
\* constructor, each worker runs worker_thread (threads_utility.h:157-163),
\* and no step of either waits for anything but m_mutex, which is held for a
\* push_back or a pop_front only.
InitPoolFair ==
    /\ pc = "new"
    /\ m_type = 0
    /\ oABCD \in Orientation
    /\ n \in 0..MaxFairN
    /\ m \in 0..MaxFairM
    /\ m_curve = << >>
    /\ PoolIdle
    /\ NoPlot
    /\ NoMore

\* the steps of the thread that constructs the curve
CallerStep ==
    \/ StartBuild
    \/ PushChild(0)
    \/ WriteBase(0)
    \/ DrainCheck
    \/ CallerRunTask
    \/ CallerFinishTask

\* the steps of worker thread t
WorkerStep(t) ==
    \/ PushChild(t)
    \/ WriteBase(t)
    \/ WorkerRunTask(t)
    \/ WorkerFinishTask(t)

SpecPoolFair ==
    /\ InitPoolFair
    /\ [][NextPool]_vars
    /\ WF_vars(CallerStep)
    /\ \A t \in 1..NumWorkers : WF_vars(WorkerStep(t))

\* the number of productions from family t down to H0 along its longest chain
\* of child families, counted up to fuel
RECURSIVE ProductionsToH0(_, _)
ProductionsToH0(t, fuel) ==
    IF t = 0 THEN 0
    ELSE IF fuel = 0 THEN 1
    ELSE 1 + ProductionsToH0(
                 CHOOSE u \in {Production(t, o).t[k] : o \in Orientation, k \in 1..4} :
                     \A v \in {Production(t, o).t[k] : o \in Orientation, k \in 1..4} :
                         ProductionsToH0(v, fuel - 1) <= ProductionsToH0(u, fuel - 1),
                 fuel - 1)

\* every child family of every production reaches H0 within two productions
\* and is not the family itself
FamiliesReachH0 ==
    \A t \in CurveType \ {0}, o \in Orientation, k \in 1..4 :
        /\ Production(t, o).t[k] \in CurveType
        /\ Production(t, o).t[k] # t
        /\ ProductionsToH0(Production(t, o).t[k], 4) <= 2

\* the children of a region Partition gives are smaller than it in every
\* dimension of it that is above 2
PartitionShrinks(qs) ==
    \A k \in 1..4 :
        /\ qs.n > 2 => Partition(qs)[k].n < qs.n
        /\ qs.m > 2 => Partition(qs)[k].m < qs.m

\* C20: every curve construction terminates, for every family and every
\* width and height from 0 on: the children of a family production are of
\* families that reach H0 within two further productions, none of its own
\* family; Partition shrinks every dimension above 2 of every region a build
\* partitions; and with the caller and the workers scheduled fairly the drain
\* loop eventually finds the outstanding-task counter at zero and exits.
C20_Terminates ==
    /\ [](pc = "new" => FamiliesReachH0)
    /\ [](\A t \in Threads : \A i \in DOMAIN stack[t] : PartitionShrinks(stack[t][i].qs))
    /\ <>(pc = "done")

\* the build of the 4 x 2 region of orientation B has left the drain loop
C20_Witness ==
    /\ pc = "done"
    /\ oABCD = "B"
    /\ n = 4
    /\ m = 2
    /\ ~ isWorking
    /\ Len(m_curve) = 8

\* ---------------------------------------- reverse_parallel (SpecReverse)
\* HilbertCurve::reverse calls reverse_parallel on m_curve.  The function owns
\* a thread_pool of its own; thread 0 is its caller, threads 1..NumWorkers are
\* the pool's workers.  The pool exists from the construction at
\* parallel_algorithm.h:35 until its destructor has joined the workers.

\* parallel_algorithm.h:38 is 10000 in the source; the model scales the block
\* size down and keeps every formula that depends on it
block_size == 2

\* the longest range reversed
MaxReverseLen == 13

\* parallel_algorithm.h:36
mid_lenght == lenght \div 2

\* parallel_algorithm.h:44
num_blocks == (mid_lenght + block_size - 1) \div block_size

\* the points of the range before the call, told apart by their x
ReverseInput(len) == [k \in 1..len |-> HPoint(k - 1, 0)]

\* parallel_algorithm.h:17-26  an invocation of swap_range_reverse: its
\* arguments (as offsets from first), its counter and its local lenght
SwapFrame(first_beg, first_end, last_beg, last_end) ==
    [first_beg |-> first_beg, last_beg |-> last_beg, last_end |-> last_end,
     i |-> 0, lenght |-> first_end - first_beg]

\* parallel_algorithm.h:47-48  the locals of reverse_parallel's loop
LoopFrame(i, start, end) == [i |-> i, start |-> start, end |-> end]

\* the loop advancing start only
NextBlock_start(fr) == LoopFrame(fr.i + 1, fr.start + block_size, fr.end)

\* parallel_algorithm.h:49, 53-54  ++i; start += block_size; end -= block_size
NextBlock(fr) == LoopFrame(fr.i + 1, fr.start + block_size, fr.end - block_size)

\* threads_utility.h:73, 88  the flag the destructor sets
done == pc \in {"join", "done"}

\* std::iter_swap on two positions of the sequence (first + a, first + b)
iter_swap(s, a, b) == [s EXCEPT ![a + 1] = s[b + 1], ![b + 1] = s[a + 1]]

\* the positions std::reverse swaps: every symmetric pair once
ReverseWrites(len) ==
    [k \in 1..len |-> IF k <= len \div 2 \/ k > len - len \div 2 THEN 1 ELSE 0]

InitReverse ==
    /\ pc = "new"
    /\ lenght \in 0..MaxReverseLen
    /\ m_curve = ReverseInput(lenght)
    /\ writes = [k \in 1..lenght |-> 0]
    /\ work_queue = << >>
    /\ unfinish_tasks = 0
    /\ wpc = [t \in 1..NumWorkers |-> "run_task"]
    /\ stack = [t \in 0..NumWorkers |-> << >>]
    /\ m_type = 0
    /\ oABCD = "A"
    /\ n = 0
    /\ m = 0
    /\ dim = <<0, 0>>
    /\ m_data = << >>
    /\ m_min = F(0)
    /\ m_max = F(0)
    /\ m_plotToCurve = << >>
    /\ ret = "none"
    /\ NoMore

\* parallel_algorithm.h:31-42  an empty range returns before the pool exists;
\* below the threshold the range is reversed by std::reverse and the pool is
\* destroyed; otherwise the loop starts with start = first, end = last
ReverseEnter ==
    /\ pc = "new"
    /\ IF lenght = 0
       THEN /\ pc' = "done"
            /\ wpc' = [t \in 1..NumWorkers |-> "exited"]
            /\ UNCHANGED <<m_curve, writes, stack>>
       ELSE IF mid_lenght < block_size
       THEN /\ pc' = "join"
            /\ m_curve' = Rev(m_curve)
            /\ writes' = ReverseWrites(lenght)
            /\ UNCHANGED <<stack, wpc>>
       ELSE /\ pc' = "push"
            /\ stack' = [stack EXCEPT ![0] = <<LoopFrame(0, 0, lenght)>>]
            /\ UNCHANGED <<m_curve, writes, wpc>>
    /\ UNCHANGED <<work_queue, unfinish_tasks, m_type, n, m, oABCD>>
    /\ UNCHANGED <<dimVars, moreVars, plotVars>>

\* parallel_algorithm.h:49-55 with threads_utility.h:99-109: bind a block and
\* its mirror block, push the task, advance start and end
ReversePush ==
    /\ pc = "push"
    /\ stack[0][1].i < num_blocks - 1
    /\ LET fr == stack[0][1]
       IN  /\ work_queue' = Append(work_queue,
                                   SwapFrame(fr.start, fr.start + block_size,
                                             fr.end - block_size, fr.end))
           /\ unfinish_tasks' = unfinish_tasks + 1
           /\ stack' = [stack EXCEPT ![0] = <<NextBlock(fr)>>]
    /\ UNCHANGED <<pc, wpc, writes>>
    /\ UNCHANGED curveVars
    /\ UNCHANGED <<dimVars, moreVars, plotVars>>

\* parallel_algorithm.h:56  the caller swaps the rest of the first half with
\* its mirror itself
ReverseOwnBlock ==
    /\ pc = "push"
    /\ ~ (stack[0][1].i < num_blocks - 1)
    /\ pc' = "swap"
    /\ stack' = [stack EXCEPT ![0] =
                    Append(@, SwapFrame(stack[0][1].start, mid_lenght,
                                        lenght - mid_lenght, stack[0][1].end))]
    /\ UNCHANGED <<wpc, writes, work_queue, unfinish_tasks>>
    /\ UNCHANGED curveVars
    /\ UNCHANGED <<dimVars, moreVars, plotVars>>

\* thread t is inside swap_range_reverse
Swapping(t) ==
    /\ stack[t] # << >>
    /\ IF t = 0 THEN pc \in {"swap", "task"} ELSE wpc[t] = "task"

\* parallel_algorithm.h:22-25  one iteration: iter_swap(first_beg++, --last_end)
SwapStep(t) ==
    /\ Swapping(t)
    /\ Top(t).i < Top(t).lenght
    /\ LET fr == Top(t)
       IN  /\ m_curve' = iter_swap(m_curve, fr.first_beg, fr.last_end - 1)
           /\ writes' = [writes EXCEPT ![fr.first_beg + 1] = @ + 1,
                                       ![fr.last_end] = @ + 1]
           /\ stack' = [stack EXCEPT ![t] =
                           SetTop(@, [fr EXCEPT !.first_beg = @ + 1,
                                                !.last_end = @ - 1,
                                                !.i = @ + 1])]
    /\ UNCHANGED <<pc, wpc, work_queue, unfinish_tasks, m_type, n, m, oABCD>>
    /\ UNCHANGED <<dimVars, moreVars, plotVars>>

\* parallel_algorithm.h:56-57  the caller's own block is done; it stands at
\* the drain loop
ReverseOwnReturn ==
    /\ pc = "swap"
    /\ Top(0).i = Top(0).lenght
    /\ pc' = "drain"
    /\ stack' = [stack EXCEPT ![0] = Pop(@)]
    /\ UNCHANGED <<wpc, writes, work_queue, unfinish_tasks>>
    /\ UNCHANGED curveVars
    /\ UNCHANGED <<dimVars, moreVars, plotVars>>

\* parallel_algorithm.h:57 while (pool.isWorking()); when it is false the
\* function returns and the destructor of pool sets done (threads_utility.h:88)
ReverseDrainCheck ==
    /\ pc = "drain"
    /\ pc' = IF isWorking THEN "run_task" ELSE "join"
    /\ stack' = [stack EXCEPT ![0] = IF isWorking THEN @ ELSE << >>]
    /\ UNCHANGED <<wpc, writes, work_queue, unfinish_tasks>>
    /\ UNCHANGED curveVars
    /\ UNCHANGED <<dimVars, moreVars, plotVars>>

\* threads_utility.h:121-132 on thread t: pop the front task and call it
ReverseTakeTask(t) ==
    /\ work_queue # << >>
    /\ work_queue' = Tail(work_queue)
    /\ stack' = [stack EXCEPT ![t] = Append(@, Head(work_queue))]
    /\ UNCHANGED <<unfinish_tasks, writes>>
    /\ UNCHANGED curveVars
    /\ UNCHANGED <<dimVars, moreVars, plotVars>>

\* threads_utility.h:133-135 on thread t: the task has returned, --unfinish_tasks
ReverseFinishTask(t) ==
    /\ Swapping(t)
    /\ Top(t).i = Top(t).lenght
    /\ stack' = [stack EXCEPT ![t] = Pop(@)]
    /\ unfinish_tasks' = unfinish_tasks - 1
    /\ UNCHANGED <<work_queue, writes>>
    /\ UNCHANGED curveVars
    /\ UNCHANGED <<dimVars, moreVars, plotVars>>

\* parallel_algorithm.h:59  run_task() called from the drain loop
ReverseCallerRunTask ==
    /\ pc = "run_task"
    /\ \/ ReverseTakeTask(0) /\ pc' = "task"
       \/ /\ work_queue = << >>
          /\ pc' = "drain"
          /\ UNCHANGED <<poolVars, curveVars, dimVars, moreVars, plotVars>>
    /\ UNCHANGED wpc

ReverseCallerFinishTask ==
    /\ pc = "task"
    /\ ReverseFinishTask(0)
    /\ pc' = "drain"
    /\ UNCHANGED wpc

\* the pool of this call exists
PoolAlive == pc # "new" /\ lenght # 0

\* threads_utility.h:119-138 called from worker_thread: pop and call the front
\* task, or yield and go back to the loop test
ReverseWorkerRunTask(t) ==
    /\ PoolAlive
    /\ wpc[t] = "run_task"
    /\ \/ ReverseTakeTask(t) /\ wpc' = [wpc EXCEPT ![t] = "task"]
       \/ /\ work_queue = << >>
          /\ wpc' = [wpc EXCEPT ![t] = "check"]
          /\ UNCHANGED <<work_queue, unfinish_tasks, stack, writes>>
          /\ UNCHANGED <<curveVars, dimVars, moreVars, plotVars>>
    /\ UNCHANGED pc

ReverseWorkerFinishTask(t) ==
    /\ wpc[t] = "task"
    /\ ReverseFinishTask(t)
    /\ wpc' = [wpc EXCEPT ![t] = "check"]
    /\ UNCHANGED pc

\* threads_utility.h:159  while (!done)
ReverseWorkerCheck(t) ==
    /\ wpc[t] = "check"
    /\ wpc' = [wpc EXCEPT ![t] = IF done THEN "exited" ELSE "run_task"]
    /\ UNCHANGED <<pc, work_queue, unfinish_tasks, stack, writes>>
    /\ UNCHANGED <<curveVars, dimVars, moreVars, plotVars>>

\* threads_utility.h:89-95  the destructor has joined every worker and
\* reverse_parallel returns to its caller
ReverseJoin ==
    /\ pc = "join"
    /\ \A t \in 1..NumWorkers : wpc[t] = "exited"
    /\ pc' = "done"
    /\ UNCHANGED <<poolVars, curveVars, dimVars, moreVars, plotVars>>

NextReverse ==
    \/ ReverseEnter
    \/ ReversePush
    \/ ReverseOwnBlock
    \/ \E t \in Threads : SwapStep(t)
    \/ ReverseOwnReturn
    \/ ReverseDrainCheck
    \/ ReverseCallerRunTask
    \/ ReverseCallerFinishTask
    \/ \E t \in 1..NumWorkers : ReverseWorkerRunTask(t)
    \/ \E t \in 1..NumWorkers : ReverseWorkerFinishTask(t)
    \/ \E t \in 1..NumWorkers : ReverseWorkerCheck(t)
    \/ ReverseJoin

SpecReverse == InitReverse /\ [][NextReverse]_vars

\* the positions the invocation of swap_range_reverse fr has still to swap
Remaining(fr) ==
    {fr.first_beg + k : k \in 1..(fr.lenght - fr.i)}
        \cup {fr.last_end + 1 - k : k \in 1..(fr.lenght - fr.i)}

\* the invocations of swap_range_reverse not yet returned: queued or running
Blocks ==
    {work_queue[k] : k \in DOMAIN work_queue}
        \cup {stack[t][Len(stack[t])] :
                t \in {u \in Threads : stack[u] # << >> /\ (u # 0 \/ pc \in {"swap", "task"})}}

\* C21: reverse_parallel leaves the range exactly reversed for every length,
\* under every interleaving of the workers and the helping caller: the blocks
\* of different tasks and of the caller are pairwise disjoint and hold no
\* position already swapped, both ranges of a block have the same length,
\* every symmetric pair is swapped exactly once, and when the function has
\* returned no task is queued, running or counted and every worker has exited.
C21_ReverseParallel ==
    /\ \A b1, b2 \in Blocks : b1 # b2 => Remaining(b1) \cap Remaining(b2) = {}
    /\ \A b \in Blocks :
          /\ b.lenght = b.last_end + b.i - b.last_beg
          /\ \A k \in Remaining(b) : writes[k] = 0
    /\ \A k \in DOMAIN writes : writes[k] <= 1
    /\ pc = "done" =>
          /\ m_curve = Rev(ReverseInput(lenght))
          /\ writes = ReverseWrites(lenght)
          /\ work_queue = << >>
          /\ unfinish_tasks = 0
          /\ \A t \in Threads : stack[t] = << >>
          /\ \A t \in 1..NumWorkers : wpc[t] = "exited"

\* a range of 11 points, above the threshold with a half-length of 5 that is
\* no multiple of the block size, has been reversed and the call has returned
C21_Witness ==
    /\ pc = "done"
    /\ lenght = 11
    /\ num_blocks = 3
    /\ m_curve[1].x = 10
    /\ m_curve[6].x = 5
    /\ m_curve[11].x = 0

\* ------------------------------------ the discontinuity pass (SpecDifference)
\* A client constructs a curve of any family without the pass, as Build()
\* leaves it, and the constructor then runs BuildDifference on it.

\* the largest width and height of a curve given to the pass
MaxDifferenceDim == 4

InitDifference ==
    /\ pc = "new"
    /\ m_type \in CurveType
    /\ oABCD \in Orientation
    /\ n \in 1..MaxDifferenceDim
    /\ m \in 1..MaxDifferenceDim
    /\ m_curve = << >>
    /\ PoolIdle
    /\ NoPlot
    /\ NoMore

\* hilbertcurve.cpp:3357  Build()
CallBuild ==
    /\ pc = "new"
    /\ pc' = "built"
    /\ m_curve' = HilbertCurve(m, n, m_type, coord, oABCD).m_curve
    /\ UNCHANGED <<m_type, n, m, oABCD, poolVars, dimVars, moreVars, plotVars>>

\* hilbertcurve.cpp:3358-3360  if (differenceCurve) BuildDifference()
CallBuildDifference ==
    /\ pc = "built"
    /\ pc' = "scored"
    /\ LET c == BuildDifference(ThisCurve)
       IN  /\ m_curve' = c.m_curve
           /\ difference' = c.difference
           /\ m_mean_difference' = c.m_mean_difference
    /\ UNCHANGED <<m_type, n, m, oABCD, poolVars, dimVars, plotVars, coord, partition_vec,
                   restVars>>

NextDifference == CallBuild \/ CallBuildDifference

SpecDifference == InitDifference /\ [][NextDifference]_vars

\* C22: the discontinuity pass keeps the traversal order: after
\* BuildDifference the sequence has the same length and the same coordinates
\* at every position as before it, and the point at position i (from 0)
\* carries index i, for every family, orientation, width and height.
C22_OrderPreserved ==
    [][(pc = "built" /\ pc' = "scored") =>
          /\ Len(m_curve') = Len(m_curve)
          /\ \A k \in DOMAIN m_curve :
                /\ m_curve'[k].x = m_curve[k].x
                /\ m_curve'[k].y = m_curve[k].y
                /\ m_curve'[k].index = k - 1]_vars

\* the pass has run on the 4 x 3 curve of family 39: its traversal does not
\* start in raster order and its last point carries index 11
C22_Witness ==
    /\ pc = "scored"
    /\ m_type = 39
    /\ n = 3
    /\ m = 4
    /\ Len(m_curve) = 12
    /\ m_curve[12].index = 11
    /\ \E k \in 1..11 : PointLess(m_curve[k + 1], m_curve[k])

\* ------------------------------- hpFourierTransform's scan (SpecFourier)
\* hpFourierTransform hands the plot to the FFT library and reads the bins
\* back from dataoutput; the library is no part of the sources, so the bins
\* are an input here.  A bin is a pair [re, im]; the locals of the function
\* are doubles.

\* the largest number of bins and the largest real part of a bin
MaxBins == 3
MaxBinRe == 3

\* hilbertplot.cpp:270  std::numeric_limits<double>::min(), the smallest
\* positive normal double: above 0 and below every positive power of the bins
DBL_MIN == [n |-> 1, d |-> 1024]

\* hilbertplot.cpp:271  std::numeric_limits<double>::max(): above every power
DBL_MAX == [n |-> 1048576, d |-> 1]

Bins == [re : 0..MaxBinRe, im : 0..1]

\* hilbertplot.cpp:301  v = dataoutput[i][0]*dataoutput[i][0] + dataoutput[i][1]*dataoutput[i][1]
Power(bin) == F(bin.re * bin.re + bin.im * bin.im)

\* hilbertplot.cpp:302-307  one iteration of the scan: max, then min, then
\* max2 tested against the max just updated
ScanStep(s, v) ==
    LET newmax == IF FLess(s.max, v) THEN v ELSE s.max
    IN  [max |-> newmax,
         min |-> IF FLess(v, s.min) THEN v ELSE s.min,
         max2 |-> IF FLess(s.max2, v) /\ FLess(v, newmax) THEN v ELSE s.max2]

\* hilbertplot.cpp:269-271, 298-308  the scan over the bins in index order
RECURSIVE Scan(_, _, _)
Scan(out, i, s) ==
    IF i > Len(out) THEN s ELSE Scan(out, i + 1, ScanStep(s, Power(out[i])))

\* hilbertplot.cpp:318-322  the power of a bin as it enters the normalization
\* without logflag: a power that reaches max is replaced by max2
Clamped(bin, s) == IF ~ FLess(Power(bin), s.max) THEN s.max2 ELSE Power(bin)

InitFourier ==
    /\ pc = "new"
    /\ dataoutput \in UNION {[1..k -> Bins] : k \in 1..MaxBins}
    /\ spectrum = << >>
    /\ NoCompare
    /\ NoBuilds
    /\ NoCurve
    /\ PoolIdle
    /\ NoPlot
    /\ coord = HPoint(0, 0)
    /\ difference = << >>
    /\ m_mean_difference = F(0)
    /\ partition_vec = << >>

\* hilbertplot.cpp:298-322  the scan, then the clamp of every bin
hpFourierTransform ==
    /\ pc = "new"
    /\ pc' = "transformed"
    /\ LET s == Scan(dataoutput, 1, [max |-> DBL_MIN, min |-> DBL_MAX, max2 |-> DBL_MIN])
       IN  spectrum' = [max |-> s.max, min |-> s.min, max2 |-> s.max2,
                        wdf |-> [i \in DOMAIN dataoutput |-> Clamped(dataoutput[i], s)]]
    /\ UNCHANGED <<dataoutput, curveVars, poolVars, dimVars, plotVars, coord, difference,
                   m_mean_difference, partition_vec, cmpVars, builds>>

NextFourier == hpFourierTransform

SpecFourier == InitFourier /\ [][NextFourier]_vars

\* the powers of the bins
Powers == {Power(dataoutput[i]) : i \in DOMAIN dataoutput}

Largest == CHOOSE v \in Powers : \A u \in Powers : ~ FLess(v, u)

SecondLargest ==
    CHOOSE v \in Powers \ {Largest} : \A u \in Powers \ {Largest} : ~ FLess(v, u)

\* C23: for every sequence of bin powers with at least two distinct values,
\* in whatever order the bins are scanned, max2 is the second-largest
\* distinct power, and the largest bin enters the normalization as that
\* value while every other bin keeps its power.
C23_ClampSecondLargest ==
    (pc = "transformed" /\ Cardinality(Powers) >= 2) =>
        /\ spectrum.max2 = SecondLargest
        /\ \A i \in DOMAIN dataoutput :
              spectrum.wdf[i] = IF Power(dataoutput[i]) = Largest THEN SecondLargest
                                ELSE Power(dataoutput[i])

\* ------------------------------------------ the plot's lookup (SpecLookup)
\* A client constructs a plot of any family with width and height given, on
\* data that tell the positions apart, and replaces values at some cells and
\* positions.

\* the largest width and height of such a plot
MaxLookupDim == 4

\* the cells and the positions whose value the client replaces
ReplaceCells == {<<0, 0>>, <<1, 0>>, <<1, 1>>}
ReplacePositions == {0, 3}

InitLookup ==
    /\ pc = "new"
    /\ m_type \in CurveType
    /\ oABCD = "A"
    /\ m \in 1..MaxLookupDim
    /\ n \in 1..MaxLookupDim
    /\ m_curve = << >>
    /\ m_data = [k \in 1..(m * n) |-> F(k)]
    /\ m_min = F(0)
    /\ m_max = F(0)
    /\ m_plotToCurve = << >>
    /\ ret = "none"
    /\ lenght = 0
    /\ dim = <<0, 0>>
    /\ PoolIdle
    /\ NoMore

NextLookup ==
    \/ HilbertPlot
    \/ \E index \in ReplacePositions, value \in ReplaceValues : replaceValueAt(index, value)
    \/ \E c \in ReplaceCells, value \in ReplaceValues : replaceValueAtXY(c[1], c[2], value)

SpecLookup == InitLookup /\ [][NextLookup]_vars

\* C24: the lookup table of a plot agrees with its curve, for every family
\* and every width and height from 1 on, also after replaceValueAt calls: the
\* point at traversal position i has coordinates (x, y) with indexOf(x, y) = i;
\* indexOf maps the grid cells one-to-one onto 0..width*height-1; and
\* valueAt(x, y) is the value stored at position indexOf(x, y).
C24_LookupConsistent ==
    pc = "ready" =>
        /\ Len(m_curve) = width * height
        /\ \A i \in DOMAIN m_curve :
              indexOf(m_curve[i].x, m_curve[i].y) = [raised |-> "none", index |-> i - 1]
        /\ \A c \in Cells(width, height) :
              /\ indexOf(c[1], c[2]).raised = "none"
              /\ indexOf(c[1], c[2]).index \in 0..(width * height - 1)
              /\ valueAtXY(c[1], c[2]) = valueAt(indexOf(c[1], c[2]).index)
              /\ valueAtXY(c[1], c[2]) = Returned(m_data[indexOf(c[1], c[2]).index + 1])
        /\ \A c1, c2 \in Cells(width, height) :
              indexOf(c1[1], c1[2]).index = indexOf(c2[1], c2[2]).index => c1 = c2

\* a 4 x 3 plot of family 39, where cell (1,1) is position 3 of the curve:
\* the values at position 0 and at that cell have been replaced, the value at
\* position 4 has not
C24_Witness ==
    /\ pc = "ready"
    /\ m_type = 39
    /\ m = 4
    /\ n = 3
    /\ m_plotToCurve[2][2] = 3
    /\ m_data[1] = F(2)
    /\ m_data[4] = F(2)
    /\ m_data[5] = F(5)

\* ------------------------------------------- orientations created by a build
\* the regions QuasiSquare::BuildCurve creates from qs on: qs and, while the
\* orientation is one of the four, the regions of its four children
RECURSIVE RegionsBuilt(_)
RegionsBuilt(qs) ==
    {qs} \cup
        IF qs.oABCD \in Orientation /\ NeedsPartition(qs)
        THEN UNION {RegionsBuilt(Partition(qs)[k]) : k \in 1..4}
        ELSE {}

\* the curves the constructor creates for a curve of the given size, family
\* and orientation: the curve and, while the orientation is one of the four,
\* the curves of its four quadrants
RECURSIVE CurvesBuilt(_, _, _, _)
CurvesBuilt(w, h, type, orientation) ==
    {[m |-> w, n |-> h, m_type |-> type, oABCD |-> orientation]} \cup
        IF type # 0 /\ orientation \in Orientation
        THEN LET w2 == w \div 2
                 w1 == w - w2
                 h2 == h \div 2
                 h1 == h - h2
                 p == Production(type, orientation)
             IN  CurvesBuilt(w1, h1, p.t[1], p.o[1]) \cup CurvesBuilt(w1, h2, p.t[2], p.o[2])
                     \cup CurvesBuilt(w2, h2, p.t[3], p.o[3])
                     \cup CurvesBuilt(w2, h1, p.t[4], p.o[4])
        ELSE {}

\* C25: no build meets an orientation outside {A, B, C, D}: for every
\* family, size and top-level orientation, every curve the constructor
\* creates for a quadrant, and every region an H0 build among them creates by
\* Partition, has one of the four orientations, so every switch on the
\* orientation takes one of its four cases and reflect never raises
\* HilbertBadOrientation.
C25_OrientationClosed ==
    \A c \in CurvesBuilt(m, n, m_type, oABCD) :
        /\ c.oABCD \in Orientation
        /\ c.m_type \in CurveType
        /\ c.m_type = 0 =>
              \A r \in RegionsBuilt(QuasiSquare(c.n, c.m, HPoint(0, 0), c.oABCD)) :
                  /\ r.oABCD \in Orientation
                  /\ NeedsPartition(r) => Len(Partition(r)) = 4

\* the 4 x 4 curve of family 39 and orientation D has been built: its
\* quadrants are of orientations C, A, B, C and of families 5, 5, 1, 3, whose
\* quadrants are H0 curves of one cell
C25_Witness ==
    /\ pc = "built"
    /\ m_type = 39
    /\ oABCD = "D"
    /\ m = 4
    /\ n = 4
    /\ Len(m_curve) = 16
    /\ {c.oABCD : c \in CurvesBuilt(m, n, m_type, oABCD)} = Orientation
    /\ \E c \in CurvesBuilt(m, n, m_type, oABCD) : c.m_type = 0 /\ c.m = 1 /\ c.n = 1

\* ------------------------------------------ HPoint comparisons (SpecCompare)
\* A client compares two points with the four relational operators.

\* the largest coordinate of a compared point
MaxCoord == 2

\* hpoint.cpp:463-466  operator>=(p1, p2) is !(p2 > p1)
PointGreaterEq(p1, p2) == ~ PointGreater(p2, p1)

\* hpoint.cpp:475-478  operator<=(p1, p2) is !(p2 < p1)
PointLessEq(p1, p2) == ~ PointLess(p2, p1)

InitCompare ==
    /\ pc = "new"
    /\ operands \in {<<HPoint(x1, y1), HPoint(x2, y2)>> :
                         x1 \in 0..MaxCoord, y1 \in 0..MaxCoord,
                         x2 \in 0..MaxCoord, y2 \in 0..MaxCoord}
    /\ cmp = << >>
    /\ NoFourier
    /\ NoBuilds
    /\ NoCurve
    /\ PoolIdle
    /\ NoPlot
    /\ coord = HPoint(0, 0)
    /\ difference = << >>
    /\ m_mean_difference = F(0)
    /\ partition_vec = << >>

\* a < b, a > b, a <= b, a >= b
Compare ==
    /\ pc = "new"
    /\ pc' = "compared"
    /\ cmp' = [lt |-> PointLess(operands[1], operands[2]),
               gt |-> PointGreater(operands[1], operands[2]),
               le |-> PointLessEq(operands[1], operands[2]),
               ge |-> PointGreaterEq(operands[1], operands[2])]
    /\ UNCHANGED <<operands, fftVars, curveVars, poolVars, dimVars, plotVars, coord,
                   difference, m_mean_difference, partition_vec, builds>>

NextCompare == Compare

SpecCompare == InitCompare /\ [][NextCompare]_vars

\* a < b in the strict row-major order of the synopsis
RowMajorLess(a, b) == a.y < b.y \/ (a.y = b.y /\ a.x < b.x)

\* C26: the comparison operators are the documented strict row-major order:
\* a < b iff a.y < b.y or (a.y = b.y and a.x < b.x); a > b iff b < a;
\* a <= b iff not a > b; a >= b iff not a < b; so a < a and a > a are false
\* and a <= a is true.
C26_StrictRowMajor ==
    pc = "compared" =>
        LET a == operands[1]
            b == operands[2]
        IN  /\ cmp.lt = RowMajorLess(a, b)
            /\ cmp.gt = RowMajorLess(b, a)
            /\ cmp.le = ~ cmp.gt
            /\ cmp.ge = ~ cmp.lt
            /\ (a.x = b.x /\ a.y = b.y) => (~ cmp.lt /\ ~ cmp.gt /\ cmp.le)

\* ----------------------------- two builds on the one pool (SpecTwoBuilds)
\* Two threads construct an H0 curve each at the same time.  Both builds push
\* to thread_pool::instance() and both drain loops test its one counter.
\* builds[b] holds what is private to build b: the position pc of its caller
\* in BuildCurveH0, its region and its m_curve; helped records that its
\* caller has taken a task of the other build from the queue.  The caller of
\* build b is thread -b, the workers are threads 1..NumWorkers, and stack[t]
\* is [list, st]: the build whose coordinates_list thread t writes and its
\* active BuildCurve invocations.

\* the largest height and width of the two regions
MaxTwoN == 3
MaxTwoM == 2

Builds == {1, 2}
CallerOf(b) == 0 - b
TwoThreads == {CallerOf(b) : b \in Builds} \cup (1..NumWorkers)

\* hilbertcurve.cpp:249  std::bind(&QuasiSquare::BuildCurve, qs,
\* std::ref(coordinates_list), index): the task refers to the list of its build
BoundTaskOf(qs, index, list) == [qs |-> qs, index |-> index, list |-> list]

InitTwoBuilds ==
    /\ pc = "new"
    /\ builds \in [Builds -> {[pc |-> "new", n |-> nn, m |-> mm, oABCD |-> "A",
                               m_curve |-> << >>, helped |-> FALSE] :
                                  nn \in 1..MaxTwoN, mm \in 1..MaxTwoM}]
    /\ work_queue = << >>
    /\ unfinish_tasks = 0
    /\ wpc = [t \in 1..NumWorkers |-> "run_task"]
    /\ stack = [t \in TwoThreads |-> [list |-> 0, st |-> << >>]]
    /\ writes = << >>
    /\ NoCurve
    /\ NoPlot
    /\ coord = HPoint(0, 0)
    /\ difference = << >>
    /\ m_mean_difference = F(0)
    /\ partition_vec = << >>
    /\ NoFourier
    /\ NoCompare

\* what no step of this specification changes
TwoFrame == UNCHANGED <<pc, curveVars, writes, dimVars, plotVars, coord, difference,
                        m_mean_difference, partition_vec, fftVars, cmpVars>>

\* the position of the caller of build b once thread t has the invocations st:
\* when BuildCurve(m_curve, 0) has returned it stands at the drain loop
TwoAfterStep(b, t, st) ==
    IF t = CallerOf(b) /\ builds[b].pc = "build" /\ st = << >> THEN "drain" ELSE builds[b].pc

\* hilbertcurve.cpp:804-805 in build b
TwoStartBuild(b) ==
    /\ builds[b].pc = "new"
    /\ LET st == Settle(<<Frame(QuasiSquare(builds[b].n, builds[b].m, HPoint(0, 0),
                                            builds[b].oABCD), 0)>>)
       IN  /\ stack' = [stack EXCEPT ![CallerOf(b)] = [list |-> b, st |-> st]]
           /\ builds' = [builds EXCEPT
                  ![b].m_curve = [k \in 1..(builds[b].n * builds[b].m) |-> HPoint(0, 0)],
                  ![b].pc = IF st = << >> THEN "drain" ELSE "build"]
    /\ UNCHANGED <<work_queue, unfinish_tasks, wpc>>
    /\ TwoFrame

\* thread t is inside a BuildCurve invocation
TwoRunning(t) ==
    /\ stack[t].st # << >>
    /\ IF t < 0 THEN builds[0 - t].pc \in {"build", "task"} ELSE wpc[t] = "task"

\* hilbertcurve.cpp:246-252 with threads_utility.h:99-109 on thread t
TwoPushChild(t) ==
    /\ TwoRunning(t)
    /\ LET fr == stack[t].st[Len(stack[t].st)]
       IN  /\ NeedsPartition(fr.qs) /\ fr.i < 2
           /\ LET qsv == Partition(fr.qs)
                  st == Settle(SetTop(stack[t].st, [fr EXCEPT !.i = @ + 1]))
              IN  /\ work_queue' = Append(work_queue,
                                          BoundTaskOf(qsv[4 - fr.i],
                                                      ChildIndex(qsv, fr.index, fr.i),
                                                      stack[t].list))
                  /\ unfinish_tasks' = unfinish_tasks + 1
                  /\ stack' = [stack EXCEPT ![t].st = st]
                  /\ builds' = IF t < 0
                               THEN [builds EXCEPT ![0 - t].pc = TwoAfterStep(0 - t, t, st)]
                               ELSE builds
    /\ UNCHANGED wpc
    /\ TwoFrame

\* hilbertcurve.cpp:288-416 on thread t: the points of a base region are
\* assigned to the list the invocation refers to
TwoWriteBase(t) ==
    /\ TwoRunning(t)
    /\ LET fr == stack[t].st[Len(stack[t].st)]
           st == Settle(Pop(stack[t].st))
           written == [builds EXCEPT ![stack[t].list].m_curve =
                          WritePrimitive(@, fr.qs, fr.index)]
       IN  /\ ~ NeedsPartition(fr.qs)
           /\ stack' = [stack EXCEPT ![t].st = st]
           /\ builds' = IF t < 0
                        THEN [written EXCEPT ![0 - t].pc = TwoAfterStep(0 - t, t, st)]
                        ELSE written
    /\ UNCHANGED <<wpc, work_queue, unfinish_tasks>>
    /\ TwoFrame

\* hilbertcurve.cpp:812 in build b: while (thread_pool::instance().isWorking())
TwoDrainCheck(b) ==
    /\ builds[b].pc = "drain"
    /\ builds' = [builds EXCEPT ![b].pc = IF isWorking THEN "run_task" ELSE "done"]
    /\ UNCHANGED <<work_queue, unfinish_tasks, wpc, stack>>
    /\ TwoFrame

\* threads_utility.h:121-132 on thread t: pop the front task and call it
TwoTakeTask(t) ==
    /\ work_queue # << >>
    /\ work_queue' = Tail(work_queue)
    /\ stack' = [stack EXCEPT ![t] =
                    [list |-> Head(work_queue).list,
                     st |-> Settle(<<Frame(Head(work_queue).qs, Head(work_queue).index)>>)]]
    /\ UNCHANGED unfinish_tasks

\* threads_utility.h:133-135 on thread t
TwoFinishTask(t) ==
    /\ stack[t].st = << >>
    /\ unfinish_tasks' = unfinish_tasks - 1
    /\ UNCHANGED <<work_queue, stack>>

\* hilbertcurve.cpp:814 in build b: run_task() from the drain loop
TwoCallerRunTask(b) ==
    /\ builds[b].pc = "run_task"
    /\ \/ /\ TwoTakeTask(CallerOf(b))
          /\ builds' = [builds EXCEPT ![b].pc = "task",
                                      ![b].helped = @ \/ Head(work_queue).list # b]
       \/ /\ work_queue = << >>
          /\ builds' = [builds EXCEPT ![b].pc = "drain"]
          /\ UNCHANGED <<work_queue, unfinish_tasks, stack>>
    /\ UNCHANGED wpc
    /\ TwoFrame

TwoCallerFinishTask(b) ==
    /\ builds[b].pc = "task"
    /\ TwoFinishTask(CallerOf(b))
    /\ builds' = [builds EXCEPT ![b].pc = "drain"]
    /\ UNCHANGED wpc
    /\ TwoFrame

TwoWorkerRunTask(t) ==
    /\ wpc[t] = "run_task"
    /\ TwoTakeTask(t)
    /\ wpc' = [wpc EXCEPT ![t] = "task"]
    /\ UNCHANGED builds
    /\ TwoFrame

TwoWorkerFinishTask(t) ==
    /\ wpc[t] = "task"
    /\ TwoFinishTask(t)
    /\ wpc' = [wpc EXCEPT ![t] = "run_task"]
    /\ UNCHANGED builds
    /\ TwoFrame

NextTwoBuilds ==
    \/ \E b \in Builds : TwoStartBuild(b)
    \/ \E t \in TwoThreads : TwoPushChild(t)
    \/ \E t \in TwoThreads : TwoWriteBase(t)
    \/ \E b \in Builds : TwoDrainCheck(b)
    \/ \E b \in Builds : TwoCallerRunTask(b)
    \/ \E b \in Builds : TwoCallerFinishTask(b)
    \/ \E t \in 1..NumWorkers : TwoWorkerRunTask(t)
    \/ \E t \in 1..NumWorkers : TwoWorkerFinishTask(t)

SpecTwoBuilds == InitTwoBuilds /\ [][NextTwoBuilds]_vars

\* the tasks and invocations of build b that have not completed
Outstanding(b) ==
    {k \in DOMAIN work_queue : work_queue[k].list = b}
        \cup {t \in TwoThreads : stack[t].list = b /\ stack[t].st # << >>}

\* C27: with two builds on the one pool, a drain loop may run tasks of the
\* other build, and still each build is correct: once the drain loop of a
\* build has exited, no task or invocation of that build is queued or
\* running, and its m_curve is the sequence the build gives when run alone.
C27_ConcurrentBuilds ==
    \A b \in Builds :
        builds[b].pc = "done" =>
            /\ Outstanding(b) = {}
            /\ builds[b].m_curve =
                  HilbertCurve(builds[b].m, builds[b].n, 0, HPoint(0, 0),
                               builds[b].oABCD).m_curve

\* both builds are done, a 3 x 2 and a 3 x 1 region, and the caller of the
\* first has run a task of the second in its drain loop
C27_Witness ==
    /\ builds[1].pc = "done"
    /\ builds[2].pc = "done"
    /\ builds[1].helped
    /\ builds[1].n = 3 /\ builds[1].m = 2 /\ Len(builds[1].m_curve) = 6
    /\ builds[2].n = 3 /\ builds[2].m = 1 /\ Len(builds[2].m_curve) = 3

\* ----------------------------------------------- the order of joinCurve
\* hilbertcurve.cpp:820-825, 849-860  the four quadrant sequences handed to
\* joinCurve by BuildCurve<k>H for a composed curve at the origin: cuadrant1
\* lower left, cuadrant2 upper left, cuadrant3 upper right, cuadrant4 lower
\* right, each already transformed
Cuadrants(w, h, type, orientation) ==
    LET w2 == w \div 2
        w1 == w - w2
        h2 == h \div 2
        h1 == h - h2
        p  == Production(type, orientation)
    IN  <<Transform(p.f[1], HilbertCurve(w1, h1, p.t[1], HPoint(0, 0), p.o[1])).m_curve,
          Transform(p.f[2], HilbertCurve(w1, h2, p.t[2], HPoint(0, h1), p.o[2])).m_curve,
          Transform(p.f[3], HilbertCurve(w2, h2, p.t[3], HPoint(w1, h1), p.o[3])).m_curve,
          Transform(p.f[4], HilbertCurve(w2, h1, p.t[4], HPoint(w1, 0), p.o[4])).m_curve>>

\* the order of the quadrants in the joined curve, by orientation of the parent
JoinOrder(o) ==
    CASE o = "A" -> <<1, 2, 3, 4>>
      [] o = "B" -> <<1, 4, 3, 2>>
      [] o = "C" -> <<3, 4, 1, 2>>
      [] o = "D" -> <<3, 2, 1, 4>>

\* point p lies in quadrant k of a width x height region split at (w1, h1)
InCuadrant(p, k, w1, h1) ==
    CASE k = 1 -> p.x < w1 /\ p.y < h1
      [] k = 2 -> p.x < w1 /\ p.y >= h1
      [] k = 3 -> p.x >= w1 /\ p.y >= h1
      [] k = 4 -> p.x >= w1 /\ p.y < h1

\* C28: the curve of a composed family is the concatenation of its four
\* quadrant sequences (1 lower left, 2 upper left, 3 upper right, 4 lower
\* right) in the order of the parent orientation, A: 1,2,3,4; B: 1,4,3,2;
\* C: 3,4,1,2; D: 3,2,1,4: its length is the sum of the four lengths and each
\* quadrant appears as one block, in its own order, at its offset.
C28_JoinOrder ==
    (pc = "built" /\ m_type # 0) =>
        \A q \in {Cuadrants(m, n, m_type, oABCD)} :
        LET ord == JoinOrder(oABCD)
            Offset(j) == IF j = 1 THEN 0
                         ELSE IF j = 2 THEN Len(q[ord[1]])
                         ELSE IF j = 3 THEN Len(q[ord[1]]) + Len(q[ord[2]])
                         ELSE Len(q[ord[1]]) + Len(q[ord[2]]) + Len(q[ord[3]])
        IN  /\ Len(m_curve) = Len(q[1]) + Len(q[2]) + Len(q[3]) + Len(q[4])
            /\ \A j \in 1..4 :
                  /\ \A k \in 1..Len(q[ord[j]]) :
                        /\ m_curve[Offset(j) + k].x = q[ord[j]][k].x
                        /\ m_curve[Offset(j) + k].y = q[ord[j]][k].y
                        /\ InCuadrant(m_curve[Offset(j) + k], ord[j],
                                      m - (m \div 2), n - (n \div 2))

\* a 4 x 3 curve of family 39 with orientation B: four points of the lower
\* left quadrant, then four of the lower right, then two of the upper right
\* and two of the upper left
C28_Witness ==
    /\ pc = "built"
    /\ m_type = 39 /\ oABCD = "B" /\ m = 4 /\ n = 3
    /\ Len(m_curve) = 12
    /\ InCuadrant(m_curve[4], 1, 2, 2)
    /\ InCuadrant(m_curve[5], 4, 2, 2)
    /\ InCuadrant(m_curve[9], 3, 2, 2)
    /\ InCuadrant(m_curve[12], 2, 2, 2)

\* ------------------------------------------ tasks of a thread pool (SpecTasks)
\* A pool with its workers and one client thread (thread 0).  The client
\* pushes tasks and helps with run_task; a task body may itself push a task,
\* as BuildCurve does.  Tasks are numbered in the order of push_back;
\* writes[id] counts the calls of task id, stack[t] holds the task thread t
\* has taken, and the position of thread t is pc (client) or wpc[t] (worker):
\*   "idle"         between calls (worker: at while (!done))
\*   "locked"       in push_task, after push_back, holding m_mutex
\*   "task"         in run_task, task taken, its body not yet run
\*   "task_locked"  in push_task called by the body of the task
\*   "ran"          the body has returned, --unfinish_tasks still to come
\*   "yield"        run_task found the queue empty

\* the number of tasks pushed in one behaviour
MaxTasks == 3

TaskThreads == 0..NumWorkers

Pos(t) == IF t = 0 THEN pc ELSE wpc[t]

\* thread t moves to position p
Goto(t, p) ==
    IF t = 0 THEN pc' = p /\ UNCHANGED wpc
             ELSE wpc' = [wpc EXCEPT ![t] = p] /\ UNCHANGED pc

\* threads_utility.h:105, 121  m_mutex is held by a thread inside push_task;
\* run_task takes and releases it within one step
m_mutex_held == \E t \in TaskThreads : Pos(t) \in {"locked", "task_locked"}

\* run_task that leaves the task it calls at the front of the queue
pop_front_keep(q) == q

\* threads_utility.h:129  work_queue.pop_front()
pop_front(q) == Tail(q)

InitTasks ==
    /\ pc = "idle"
    /\ wpc = [t \in 1..NumWorkers |-> "idle"]
    /\ work_queue = << >>
    /\ unfinish_tasks = 0
    /\ stack = [t \in TaskThreads |-> << >>]
    /\ writes = << >>
    /\ NoCurve
    /\ NoPlot
    /\ NoMore

TasksFrame == UNCHANGED <<curveVars, dimVars, plotVars, moreVars>>

\* threads_utility.h:105-106 on thread t: lock, work_queue.push_back(func);
\* called by the client or by the body of the task thread t runs
PushBack(t) ==
    /\ Len(writes) < MaxTasks
    /\ ~ m_mutex_held
    /\ \/ t = 0 /\ Pos(t) = "idle" /\ Goto(t, "locked")
       \/ Pos(t) = "task" /\ Goto(t, "task_locked")
    /\ work_queue' = Append(work_queue, Len(writes) + 1)
    /\ writes' = Append(writes, 0)
    /\ UNCHANGED <<unfinish_tasks, stack>>
    /\ TasksFrame

\* threads_utility.h:107-109 on thread t: ++unfinish_tasks, unlock, return
PushCount(t) ==
    /\ \/ Pos(t) = "locked" /\ Goto(t, "idle")
       \/ Pos(t) = "task_locked" /\ Goto(t, "task")
    /\ unfinish_tasks' = unfinish_tasks + 1
    /\ UNCHANGED <<work_queue, stack, writes>>
    /\ TasksFrame

\* threads_utility.h:121-130 on thread t: lock; the queue is empty: unlock
\* and yield; otherwise copy the front task, pop it, unlock
RunTask(t) ==
    /\ Pos(t) = "idle"
    /\ ~ m_mutex_held
    /\ \/ /\ work_queue = << >>
          /\ Goto(t, "yield")
          /\ UNCHANGED <<work_queue, stack>>
       \/ /\ work_queue # << >>
          /\ stack' = [stack EXCEPT ![t] = <<Head(work_queue)>>]
          /\ work_queue' = pop_front(work_queue)
          /\ Goto(t, "task")
    /\ UNCHANGED <<unfinish_tasks, writes>>
    /\ TasksFrame

\* threads_utility.h:131 on thread t: task()
CallTask(t) ==
    /\ Pos(t) = "task"
    /\ writes' = [writes EXCEPT ![stack[t][1]] = @ + 1]
    /\ Goto(t, "ran")
    /\ UNCHANGED <<work_queue, unfinish_tasks, stack>>
    /\ TasksFrame

\* threads_utility.h:133 on thread t: --unfinish_tasks
CountDown(t) ==
    /\ Pos(t) = "ran"
    /\ unfinish_tasks' = unfinish_tasks - 1
    /\ stack' = [stack EXCEPT ![t] = << >>]
    /\ Goto(t, "idle")
    /\ UNCHANGED <<work_queue, writes>>
    /\ TasksFrame

\* threads_utility.h:126, 159 on thread t: back from yield
Yielded(t) ==
    /\ Pos(t) = "yield"
    /\ Goto(t, "idle")
    /\ UNCHANGED <<work_queue, unfinish_tasks, stack, writes>>
    /\ TasksFrame

NextTasks ==
    \/ \E t \in TaskThreads : PushBack(t)
    \/ \E t \in TaskThreads : PushCount(t)
    \/ \E t \in TaskThreads : RunTask(t)
    \/ \E t \in TaskThreads : CallTask(t)
    \/ \E t \in TaskThreads : CountDown(t)
    \/ \E t \in TaskThreads : Yielded(t)

SpecTasks == InitTasks /\ [][NextTasks]_vars

\* the tasks whose push_task has returned
PushedTasks ==
    IF m_mutex_held THEN 1..(Len(writes) - 1) ELSE 1..Len(writes)

\* the threads that hold task id
Holders(id) == {t \in TaskThreads : stack[t] = <<id>>}

\* C29: every pushed task is called exactly once by one thread: in every
\* interleaving of push_task and run_task no task is called twice or held
\* by two threads, a task is queued, or held by one thread, or has been
\* called, and whenever the counter of unfinished tasks is zero every task
\* whose push_task has returned has been called once.
C29_ExactlyOnce ==
    /\ \A id \in 1..Len(writes) :
          /\ writes[id] <= 1
          /\ Cardinality(Holders(id)) <= 1
          /\ Cardinality({k \in DOMAIN work_queue : work_queue[k] = id}) <= 1
          /\ (\E k \in DOMAIN work_queue : work_queue[k] = id) =>
                 (writes[id] = 0 /\ Holders(id) = {})
    /\ unfinish_tasks = 0 =>
          \A id \in PushedTasks :
              /\ writes[id] = 1
              /\ Holders(id) = {}
              /\ \A k \in DOMAIN work_queue : work_queue[k] # id

\* three tasks have been pushed and called, the counter is back at zero, and
\* both the client and a worker are between calls
C29_Witness ==
    /\ Len(writes) = 3
    /\ \A id \in 1..3 : writes[id] = 1
    /\ unfinish_tasks = 0
    /\ work_queue = << >>
    /\ pc = "idle"
    /\ wpc[1] = "idle"

\* --------------------------------------- quasi-squares closed under Partition
\* C30: the quasi-square shape is closed under Partition: for a region with
\* |n - m| <= 1, of any orientation, each of the four regions Partition
\* pushes has sizes (n', m') with |n' - m'| <= 1, and so has every region
\* the recursion of BuildCurve reaches from it.
C30_QuasiSquareClosed ==
    (pc = "partitioned" /\ n - m \in {-1, 0, 1}) =>
        /\ \A k \in (Len(partition_vec) - 3)..Len(partition_vec) :
              partition_vec[k].n - partition_vec[k].m \in {-1, 0, 1}
        /\ \A r \in RegionsBuilt(QuasiSquare(n, m, coord, oABCD)) :
              r.n - r.m \in {-1, 0, 1}

\* a 5 x 5 region of orientation C: both halves exchanged by the parity
\* test, children 2 x 3, 3 x 3, 3 x 2 and 2 x 2 (rows x columns)
C30_Witness ==
    /\ pc = "partitioned"
    /\ n = 5 /\ m = 5 /\ oABCD = "C"
    /\ Len(partition_vec) = 4
    /\ partition_vec[1].n = 2 /\ partition_vec[1].m = 3
    /\ partition_vec[2].n = 3 /\ partition_vec[2].m = 3
    /\ partition_vec[3].n = 3 /\ partition_vec[3].m = 2
    /\ partition_vec[4].n = 2 /\ partition_vec[4].m = 2
====
